---- MODULE Spec2Model ----
(***************************************************************************)
(* Print-mode progress display of the coding agent (PrintModeProgress)     *)
(* and the ANSI-aware text helpers it renders with.                        *)
(*                                                                         *)
(* Strings are sequences of UTF-16 code units, one TLA+ string per unit:   *)
(* Len(s) is JavaScript's s.length.  ESC is the unit 0x1b; HI and LO are a *)
(* high and a low surrogate (HI followed by LO is one code point).         *)
(***************************************************************************)
EXTENDS Integers, Sequences, FiniteSets, TLC

ESC == "ESC"
HI == "HI"
LO == "LO"

\* ------------------------------------------------------------------------
\* Bounds of the model
\* ------------------------------------------------------------------------
MaxLen == 6      \* pieces in an input text of truncateToWidth
MaxWidth == 6    \* largest maxWidth passed to truncateToWidth

\* ------------------------------------------------------------------------
\* ANSI text helpers
\* ------------------------------------------------------------------------

\* the character class [0-9;] of the style-sequence pattern
ParamChars == {"0", "1", "2", "3", "4", "5", "6", "7", "8", "9", ";"}

\* text.slice(from, to) with 0-based from (inclusive) and to (exclusive)
Slice(s, from, to) == SubSeq(s, from + 1, to)

\* first 1-based index >= i of s that is not in [0-9;] (Len(s)+1 when none)
RECURSIVE SkipParams(_, _)
SkipParams(s, i) ==
    IF i <= Len(s) /\ s[i] \in ParamChars THEN SkipParams(s, i + 1) ELSE i

\* /\x1b\[[0-9;]*m/ tried at 1-based index i: the index of the closing "m",
\* or 0 when the pattern does not match there
AnsiMatchEnd(s, i) ==
    IF i + 1 <= Len(s) /\ s[i] = ESC /\ s[i + 1] = "["
    THEN LET j == SkipParams(s, i + 2)
         IN  IF j <= Len(s) /\ s[j] = "m" THEN j ELSE 0
    ELSE 0

\* text.matchAll(ansiRegex) scanning from 1-based index i: the matches in
\* order, each as <<first index, last index>>
RECURSIVE AnsiMatches(_, _)
AnsiMatches(s, i) ==
    IF i > Len(s) THEN << >>
    ELSE LET e == AnsiMatchEnd(s, i)
         IN  IF e > 0 THEN << <<i, e>> >> \o AnsiMatches(s, e + 1)
             ELSE AnsiMatches(s, i + 1)

RECURSIVE StripFrom(_, _)
StripFrom(s, i) ==
    IF i > Len(s) THEN << >>
    ELSE LET e == AnsiMatchEnd(s, i)
         IN  IF e > 0 THEN StripFrom(s, e + 1)
             ELSE << s[i] >> \o StripFrom(s, i + 1)

stripAnsi(str) == StripFrom(str, 1)

visibleWidth(str) == Len(stripAnsi(str))

\* for (const char of chars) { if (visibleCount >= targetWidth) break;
\*   result += char; visibleCount++; }  -- for..of steps by code point
RECURSIVE CopyChars(_, _, _, _, _)
CopyChars(chars, k, result, visibleCount, targetWidth) ==
    IF k > Len(chars) \/ visibleCount >= targetWidth
    THEN [result |-> result, visibleCount |-> visibleCount]
    ELSE IF chars[k] = HI /\ k + 1 <= Len(chars) /\ chars[k + 1] = LO
         THEN CopyChars(chars, k + 2, result \o << HI, LO >>,
                        visibleCount + 1, targetWidth)
         ELSE CopyChars(chars, k + 1, Append(result, chars[k]),
                        visibleCount + 1, targetWidth)

\* the loop over the matches of truncateToWidth, from match number n on
RECURSIVE WalkMatches(_, _, _, _, _, _, _)
WalkMatches(text, matches, n, lastIndex, result, visibleCount, targetWidth) ==
    IF n > Len(matches)
    THEN [result |-> result, visibleCount |-> visibleCount,
          lastIndex |-> lastIndex]
    ELSE LET m == matches[n]
             beforeAnsi == Slice(text, lastIndex, m[1] - 1)
             c == CopyChars(beforeAnsi, 1, result, visibleCount, targetWidth)
         IN  IF c.visibleCount >= targetWidth
             THEN [result |-> c.result, visibleCount |-> c.visibleCount,
                   lastIndex |-> lastIndex]
             ELSE WalkMatches(text, matches, n + 1, m[2],
                              c.result \o SubSeq(text, m[1], m[2]),
                              c.visibleCount, targetWidth)

Ellipsis == << ".", ".", "." >>
ResetSeq == << ESC, "[", "0", "m" >>

\* the walking branch of truncateToWidth
WalkAndCut(text, targetWidth, ellipsis) ==
    LET w == WalkMatches(text, AnsiMatches(text, 1), 1, 0, << >>, 0,
                         targetWidth)
        r == IF w.visibleCount < targetWidth
             THEN CopyChars(Slice(text, w.lastIndex, Len(text)),
                            1, w.result, w.visibleCount, targetWidth).result
             ELSE w.result
    IN  r \o ResetSeq \o ellipsis

\* a truncateToWidth that also cuts a text exactly maxWidth wide
truncateToWidthStrict(text, maxWidth, ellipsis) ==
    IF visibleWidth(text) < maxWidth THEN text
    ELSE LET targetWidth == maxWidth - Len(ellipsis)
         IN  IF targetWidth <= 0 THEN Slice(ellipsis, 0, maxWidth)
             ELSE WalkAndCut(text, targetWidth, ellipsis)

\* a truncateToWidth that returns the whole ellipsis in the degenerate case
truncateToWidthWholeEllipsis(text, maxWidth, ellipsis) ==
    IF visibleWidth(text) <= maxWidth THEN text
    ELSE LET targetWidth == maxWidth - Len(ellipsis)
         IN  IF targetWidth <= 0 THEN ellipsis
             ELSE WalkAndCut(text, targetWidth, ellipsis)

truncateToWidthE(text, maxWidth, ellipsis) ==
    IF visibleWidth(text) <= maxWidth THEN text
    ELSE LET ellipsisWidth == Len(ellipsis)
             targetWidth == maxWidth - ellipsisWidth
         IN  IF targetWidth <= 0 THEN Slice(ellipsis, 0, maxWidth)
             ELSE WalkAndCut(text, targetWidth, ellipsis)

truncateToWidth(text, maxWidth) == truncateToWidthE(text, maxWidth, Ellipsis)

\* ------------------------------------------------------------------------
\* Characters and literals
\* ------------------------------------------------------------------------
LF == "LF"
CR == "CR"
TAB == "TAB"
UpArrow == "U+2191"
DownArrow == "U+2193"

\* the value undefined where a string is expected
Undefined == << "<undefined>" >>

Concat3(a, b, c) == a \o b \o c

\* SPINNER_FRAMES (braille patterns), 0-based index i is SPINNER_FRAMES[i + 1]
SPINNER_FRAMES ==
    << "U+280B", "U+2819", "U+2839", "U+2838", "U+283C",
       "U+2834", "U+2826", "U+2827", "U+2807", "U+280F" >>

StartingText == << "S", "t", "a", "r", "t", "i", "n", "g", ".", ".", "." >>
WorkingText == << "W", "o", "r", "k", "i", "n", "g", ".", ".", "." >>
CompactingText ==
    << "C", "o", "m", "p", "a", "c", "t", "i", "n", "g", " ",
       "c", "o", "n", "t", "e", "x", "t", ".", ".", "." >>
RetryingPrefix == << "R", "e", "t", "r", "y", "i", "n", "g" >>
ThinkingLabel == << "[", "t", "h", "i", "n", "k", "i", "n", "g", "]" >>
Placeholder == << "-", "-", "-" >>
PartSep == << " ", "|", " " >>

\* ------------------------------------------------------------------------
\* Number formatting
\* ------------------------------------------------------------------------
DigitChars == << "0", "1", "2", "3", "4", "5", "6", "7", "8", "9" >>

\* Number.prototype.toString of a non-negative integer
RECURSIVE IntToString(_)
IntToString(n) ==
    IF n < 10 THEN << DigitChars[n + 1] >>
    ELSE Append(IntToString(n \div 10), DigitChars[(n % 10) + 1])

RECURSIVE Pow10(_)
Pow10(f) == IF f = 0 THEN 1 ELSE 10 * Pow10(f - 1)

\* the f low decimal digits of n, zero padded
RECURSIVE PadDigits(_, _)
PadDigits(n, f) ==
    IF f = 0 THEN << >>
    ELSE Append(PadDigits(n \div 10, f - 1), DigitChars[(n % 10) + 1])

\* Math.round(num / den) for num >= 0, den > 0 (half rounds up)
RoundDiv(num, den) == (2 * num + den) \div (2 * den)

\* (num / den).toFixed(f) for num >= 0, den > 0, f > 0; the quotient is
\* rounded to f decimals as an exact rational, half up
ToFixed(num, den, f) ==
    LET n == RoundDiv(num * Pow10(f), den)
    IN  Concat3(IntToString(n \div Pow10(f)), << "." >>, PadDigits(n, f))

\* a formatting that has no tier of millions with a decimal
formatTokensFourTiers(count) ==
    IF count < 1000 THEN IntToString(count)
    ELSE IF count < 10000 THEN Append(ToFixed(count, 1000, 1), "k")
    ELSE IF count < 1000000 THEN Append(IntToString(RoundDiv(count, 1000)), "k")
    ELSE Append(IntToString(RoundDiv(count, 1000000)), "M")

formatTokens(count) ==
    IF count < 1000 THEN IntToString(count)
    ELSE IF count < 10000 THEN Append(ToFixed(count, 1000, 1), "k")
    ELSE IF count < 1000000 THEN Append(IntToString(RoundDiv(count, 1000)), "k")
    ELSE IF count < 10000000 THEN Append(ToFixed(count, 1000000, 1), "M")
    ELSE Append(IntToString(RoundDiv(count, 1000000)), "M")

\* an elapsed time whose minute form keeps all the seconds
formatElapsedTotalSeconds(nowMs, startMs) ==
    LET elapsed == (nowMs - startMs) \div 1000
    IN  IF elapsed < 60 THEN Append(IntToString(elapsed), "s")
        ELSE IntToString(elapsed \div 60) \o << "m", " " >>
               \o IntToString(elapsed) \o << "s" >>

\* formatElapsedTime with Date.now() = nowMs and this.startTime = startMs
formatElapsedTimeAt(nowMs, startMs) ==
    LET elapsed == (nowMs - startMs) \div 1000
    IN  IF elapsed < 60 THEN Append(IntToString(elapsed), "s")
        ELSE LET minutes == elapsed \div 60
                 seconds == elapsed % 60
             IN  IntToString(minutes) \o << "m", " " >>
                   \o IntToString(seconds) \o << "s" >>

\* ------------------------------------------------------------------------
\* Theme
\* ------------------------------------------------------------------------
ThemeColor(color) ==
    CASE color = "accent" -> << "3", "6" >>
      [] color = "warning" -> << "3", "3" >>
      [] color = "error" -> << "3", "1" >>
      [] color = "dim" -> << "2" >>

\* theme.fg(color, text): text wrapped in a style sequence of the color and
\* a foreground reset
ThemeFg(color, text) ==
    << ESC, "[" >> \o ThemeColor(color) \o << "m" >> \o text
      \o << ESC, "[", "3", "9", "m" >>

\* ------------------------------------------------------------------------
\* Activity formatting
\* ------------------------------------------------------------------------
HomeDir == << "/", "h" >>

StartsWith(s, prefix) ==
    Len(prefix) <= Len(s) /\ SubSeq(s, 1, Len(prefix)) = prefix

shortenPath(path) ==
    IF HomeDir # << >> /\ StartsWith(path, HomeDir)
    THEN << "~" >> \o Slice(path, Len(HomeDir), Len(path))
    ELSE path

\* .replace(/[\r\n\t]/g, " ")
RECURSIVE ReplaceBreaks(_)
ReplaceBreaks(s) ==
    IF s = << >> THEN << >>
    ELSE << IF Head(s) \in {CR, LF, TAB} THEN " " ELSE Head(s) >>
           \o ReplaceBreaks(Tail(s))

\* .replace(/ +/g, " ")
RECURSIVE CollapseSpaces(_)
CollapseSpaces(s) ==
    IF Len(s) < 2 THEN s
    ELSE IF s[1] = " " /\ s[2] = " " THEN CollapseSpaces(Tail(s))
    ELSE << s[1] >> \o CollapseSpaces(Tail(s))

\* the white space String.prototype.trim removes, among the model's units
TrimChars == {" ", CR, LF, TAB}

RECURSIVE TrimStart(_)
TrimStart(s) ==
    IF s # << >> /\ Head(s) \in TrimChars THEN TrimStart(Tail(s)) ELSE s

RECURSIVE TrimEnd(_)
TrimEnd(s) ==
    IF s # << >> /\ s[Len(s)] \in TrimChars
    THEN TrimEnd(SubSeq(s, 1, Len(s) - 1)) ELSE s

Trim(s) == TrimEnd(TrimStart(s))

normalizeText(text) == Trim(CollapseSpaces(ReplaceBreaks(text)))

\* Tool-call arguments: a sequence of <<key, value>> pairs (an object with
\* string values in insertion order); keys are TLA+ strings, values are
\* code-unit sequences.
RECURSIVE GetArg(_, _)
GetArg(args, key) ==
    IF args = << >> THEN Undefined
    ELSE IF Head(args)[1] = key THEN Head(args)[2]
    ELSE GetArg(Tail(args), key)

\* a || b for values that are strings or undefined
OrElse(a, b) == IF a = Undefined \/ a = << >> THEN b ELSE a

KeyChars(key) ==
    CASE key = "path" -> << "p", "a", "t", "h" >>
      [] key = "file_path" -> << "f", "i", "l", "e", "_", "p", "a", "t", "h" >>
      [] key = "pattern" -> << "p", "a", "t", "t", "e", "r", "n" >>
      [] key = "command" -> << "c", "o", "m", "m", "a", "n", "d" >>
      [] key = "q" -> << "q" >>

\* JSON string escaping of the model's units
RECURSIVE JsonEscape(_)
JsonEscape(s) ==
    IF s = << >> THEN << >>
    ELSE LET c == Head(s)
             e == CASE c = "\"" -> << "\\", "\"" >>
                    [] c = "\\" -> << "\\", "\\" >>
                    [] c = LF -> << "\\", "n" >>
                    [] c = CR -> << "\\", "r" >>
                    [] c = TAB -> << "\\", "t" >>
                    [] OTHER -> << c >>
         IN  e \o JsonEscape(Tail(s))

JsonQuote(s) == Concat3(<< "\"" >>, JsonEscape(s), << "\"" >>)

RECURSIVE JsonMembers(_)
JsonMembers(args) ==
    IF args = << >> THEN << >>
    ELSE JsonQuote(KeyChars(Head(args)[1])) \o << ":" >> \o JsonQuote(Head(args)[2])
           \o (IF Len(args) > 1 THEN << "," >> ELSE << >>)
           \o JsonMembers(Tail(args))

\* JSON.stringify(args)
JsonStringify(args) == Concat3(<< "{" >>, JsonMembers(args), << "}" >>)

ReadName == << "r", "e", "a", "d" >>
WriteName == << "w", "r", "i", "t", "e" >>
EditName == << "e", "d", "i", "t" >>
BashName == << "b", "a", "s", "h" >>
GrepName == << "g", "r", "e", "p" >>
FindName == << "f", "i", "n", "d" >>
LsName == << "l", "s" >>

\* toolCall.arguments when the tool call carries no arguments object
NoArguments == << << "<undefined>", << >> >> >>

\* the result of a call that raised a TypeError
Threw == << "<TypeError>" >>

\* a formatToolCall that caps the bash command like the JSON of custom tools
formatToolCallBashCapped(toolCall) ==
    LET name == toolCall.name
        args == toolCall.arguments
    IN  IF args = NoArguments THEN Threw
        ELSE IF name \in {ReadName, WriteName, EditName}
        THEN shortenPath(OrElse(GetArg(args, "path"),
                                OrElse(GetArg(args, "file_path"), << >>)))
        ELSE IF name = BashName
        THEN LET command == normalizeText(OrElse(GetArg(args, "command"), << >>))
             IN  IF Len(command) > 40
                 THEN Slice(command, 0, 37) \o << ".", ".", "." >>
                 ELSE command
        ELSE IF name = GrepName
        THEN << "/" >> \o OrElse(GetArg(args, "pattern"), << >>)
               \o << "/", " ", "i", "n", " " >>
               \o shortenPath(OrElse(GetArg(args, "path"), << "." >>))
        ELSE IF name = FindName
        THEN OrElse(GetArg(args, "pattern"), << >>)
               \o << " ", "i", "n", " " >>
               \o shortenPath(OrElse(GetArg(args, "path"), << "." >>))
        ELSE IF name = LsName
        THEN shortenPath(OrElse(GetArg(args, "path"), << "." >>))
        ELSE LET argsStr == JsonStringify(args)
             IN  IF Len(argsStr) > 40
                 THEN Slice(argsStr, 0, 37) \o << ".", ".", "." >>
                 ELSE argsStr

\* a formatToolCall that cuts the JSON after 40 characters, not 37
formatToolCallCutAt40(toolCall) ==
    LET name == toolCall.name
        args == toolCall.arguments
    IN  IF args = NoArguments THEN Threw
        ELSE IF name \in {ReadName, WriteName, EditName}
        THEN shortenPath(OrElse(GetArg(args, "path"),
                                OrElse(GetArg(args, "file_path"), << >>)))
        ELSE IF name = BashName
        THEN normalizeText(OrElse(GetArg(args, "command"), << >>))
        ELSE IF name = GrepName
        THEN << "/" >> \o OrElse(GetArg(args, "pattern"), << >>)
               \o << "/", " ", "i", "n", " " >>
               \o shortenPath(OrElse(GetArg(args, "path"), << "." >>))
        ELSE IF name = FindName
        THEN OrElse(GetArg(args, "pattern"), << >>)
               \o << " ", "i", "n", " " >>
               \o shortenPath(OrElse(GetArg(args, "path"), << "." >>))
        ELSE IF name = LsName
        THEN shortenPath(OrElse(GetArg(args, "path"), << "." >>))
        ELSE LET argsStr == JsonStringify(args)
             IN  IF Len(argsStr) > 40
                 THEN Slice(argsStr, 0, 40) \o << ".", ".", "." >>
                 ELSE argsStr

formatToolCall(toolCall) ==
    LET name == toolCall.name
        args == toolCall.arguments
    IN  IF args = NoArguments THEN Threw
        ELSE IF name \in {ReadName, WriteName, EditName}
        THEN shortenPath(OrElse(GetArg(args, "path"),
                                OrElse(GetArg(args, "file_path"), << >>)))
        ELSE IF name = BashName
        THEN normalizeText(OrElse(GetArg(args, "command"), << >>))
        ELSE IF name = GrepName
        THEN << "/" >> \o OrElse(GetArg(args, "pattern"), << >>)
               \o << "/", " ", "i", "n", " " >>
               \o shortenPath(OrElse(GetArg(args, "path"), << "." >>))
        ELSE IF name = FindName
        THEN OrElse(GetArg(args, "pattern"), << >>)
               \o << " ", "i", "n", " " >>
               \o shortenPath(OrElse(GetArg(args, "path"), << "." >>))
        ELSE IF name = LsName
        THEN shortenPath(OrElse(GetArg(args, "path"), << "." >>))
        ELSE LET argsStr == JsonStringify(args)
             IN  IF Len(argsStr) > 40
                 THEN Slice(argsStr, 0, 37) \o << ".", ".", "." >>
                 ELSE argsStr

\* ------------------------------------------------------------------------
\* State
\* ------------------------------------------------------------------------
VARIABLES
    progress,       \* the fields of the PrintModeProgress instance
    timers,         \* handles of the interval timers that are live
    now,            \* Date.now(), in ms
    columns,        \* process.stderr.columns (0: not available)
    written,        \* the chunks written to stderr by the last call
    lastOp,         \* the last call made: its kind, its input, isActive before
    sessionUsage,   \* sum of the usage of the message_end events handled
                    \* since the last start()
    endsHandled,    \* number of message_end events handled so far
    ticksRun,       \* number of timer callbacks run so far
    cursorRow,      \* the terminal row the cursor is on, counted from the
                    \* first line of the display's block: the row the cursor
                    \* was on when the session's first frame was painted
    run,            \* runPrintMode: its position and locals
    tText, tMaxWidth, tResult,  \* input and result of a truncateToWidth call
    fCount, fResult             \* input and result of a formatTokens call

vars == << progress, timers, now, columns, written, lastOp, sessionUsage,
           endsHandled, ticksRun, cursorRow, run, tText, tMaxWidth, tResult,
           fCount, fResult >>

truncVars == << tText, tMaxWidth, tResult, fCount, fResult >>
displayVars == << progress, timers, now, columns, written, lastOp,
                  sessionUsage, endsHandled, ticksRun, cursorRow >>

\* more bounds
MaxTimers == 2     \* interval timers live at once
MaxEnds == 2       \* message_end events handled in a behaviour
MaxTicks == 2      \* timer callbacks run in a behaviour
MaxAbove == 6      \* rows above or below its block that the cursor is
                   \* followed to
MaxCount == 12     \* multiples of each scale that formatTokens is given

\* usage.cost is held in units of 1/CostUnits dollar
CostUnits == 10000

ZeroUsage == [input |-> 0, output |-> 0, cacheRead |-> 0, cacheWrite |-> 0,
              cost |-> 0]

AddUsage(a, b) ==
    [input |-> a.input + b.input, output |-> a.output + b.output,
     cacheRead |-> a.cacheRead + b.cacheRead,
     cacheWrite |-> a.cacheWrite + b.cacheWrite, cost |-> a.cost + b.cost]

\* model: undefined is the record with present = FALSE
NoModel == [present |-> FALSE, id |-> << >>, contextWindow |-> 0,
            reasoning |-> FALSE]

\* field initialisers and constructor of PrintModeProgress
NewProgress(nowMs) ==
    [spinnerFrame |-> 0, spinnerInterval |-> 0, startTime |-> nowMs,
     currentActivity |-> << >>, currentActivityType |-> "system",
     currentToolName |-> << >>, usage |-> ZeroUsage,
     context |-> [tokens |-> 0, window |-> 0], hasReceivedStats |-> FALSE,
     model |-> NoModel, thinkingLevel |-> "off", isActive |-> FALSE,
     hasRenderedOnce |-> FALSE]

\* ------------------------------------------------------------------------
\* Rendering
\* ------------------------------------------------------------------------
LevelChars(level) ==
    CASE level = "off" -> << "o", "f", "f" >>
      [] level = "high" -> << "h", "i", "g", "h" >>

buildActivityLine(p) ==
    LET glyph == << SPINNER_FRAMES[p.spinnerFrame + 1] >>
        spinner == ThemeFg("accent", glyph)
        label(l) == ThemeFg("accent", Concat3(<< "[" >>, l, << "]" >>))
    IN  CASE p.currentActivityType = "tool" ->
               spinner \o << " " >> \o label(p.currentToolName) \o << " " >>
                 \o p.currentActivity
          [] p.currentActivityType = "thinking" ->
               IF p.currentActivity # << >>
               THEN spinner \o << " " >> \o ThemeFg("accent", ThinkingLabel)
                      \o << " " >> \o p.currentActivity
               ELSE spinner \o << " " >> \o ThemeFg("accent", ThinkingLabel)
          [] p.currentActivityType = "text" ->
               spinner \o << " " >> \o p.currentActivity
          [] OTHER ->
               IF StartsWith(p.currentActivity, RetryingPrefix)
               THEN ThemeFg("warning", glyph) \o << " " >>
                      \o ThemeFg("warning", p.currentActivity)
               ELSE spinner \o << " " >> \o p.currentActivity

PlaceholderParts ==
    << << UpArrow >> \o Placeholder,
       << DownArrow >> \o Placeholder,
       << "R" >> \o Placeholder,
       << "W" >> \o Placeholder,
       << "$" >> \o Placeholder >>

\* a stats line that shows numbers although no stats were received
TokenPartsNumeric(p) ==
    << << UpArrow >> \o formatTokens(p.usage.input),
       << DownArrow >> \o formatTokens(p.usage.output),
       << "R" >> \o formatTokens(p.usage.cacheRead),
       << "W" >> \o formatTokens(p.usage.cacheWrite),
       << "$" >> \o ToFixed(p.usage.cost, CostUnits, 3) >>

\* buildStatsLine: the token and cost parts
TokenParts(p) ==
    IF p.hasReceivedStats
    THEN << << UpArrow >> \o formatTokens(p.usage.input),
            << DownArrow >> \o formatTokens(p.usage.output),
            << "R" >> \o formatTokens(p.usage.cacheRead),
            << "W" >> \o formatTokens(p.usage.cacheWrite),
            << "$" >> \o ToFixed(p.usage.cost, CostUnits, 3) >>
    ELSE PlaceholderParts

ContextDisplay(p) ==
    ToFixed(p.context.tokens * 100, p.context.window, 1)
      \o << "%", "/" >> \o formatTokens(p.context.window)

\* a stats line that shows the context part whatever the window is
ContextPartsUnconditional(p) ==
    IF p.hasReceivedStats /\ p.context.window > 0
    THEN << ContextDisplay(p) >>
    ELSE << Placeholder \o << "/" >> \o formatTokens(p.context.window) >>

\* a stats line whose color thresholds are inclusive
ContextPartsInclusive(p) ==
    IF p.context.window > 0
    THEN IF p.hasReceivedStats
         THEN IF p.context.tokens * 100 >= 90 * p.context.window
              THEN << ThemeFg("error", ContextDisplay(p)) >>
              ELSE IF p.context.tokens * 100 >= 70 * p.context.window
              THEN << ThemeFg("warning", ContextDisplay(p)) >>
              ELSE << ContextDisplay(p) >>
         ELSE << Placeholder \o << "/" >> \o formatTokens(p.context.window) >>
    ELSE << >>

\* buildStatsLine: the context percentage part
ContextParts(p) ==
    IF p.context.window > 0
    THEN IF p.hasReceivedStats
         THEN IF p.context.tokens * 100 > 90 * p.context.window
              THEN << ThemeFg("error", ContextDisplay(p)) >>
              ELSE IF p.context.tokens * 100 > 70 * p.context.window
              THEN << ThemeFg("warning", ContextDisplay(p)) >>
              ELSE << ContextDisplay(p) >>
         ELSE << Placeholder \o << "/" >> \o formatTokens(p.context.window) >>
    ELSE << >>

\* a model part that shows the level of every model
ModelPartsAnyModel(p) ==
    IF p.model.present
    THEN << p.model.id
              \o (IF p.thinkingLevel # "off"
                  THEN << ":" >> \o LevelChars(p.thinkingLevel)
                  ELSE << >>) >>
    ELSE << >>

\* buildStatsLine: the model and thinking level part
ModelParts(p) ==
    IF p.model.present
    THEN << p.model.id
              \o (IF p.model.reasoning /\ p.thinkingLevel # "off"
                  THEN << ":" >> \o LevelChars(p.thinkingLevel)
                  ELSE << >>) >>
    ELSE << >>

\* the parts array of buildStatsLine, before the join
StatsParts(p, nowMs) ==
    TokenParts(p) \o ContextParts(p) \o ModelParts(p)
      \o << formatElapsedTimeAt(nowMs, p.startTime) >>

\* parts.join(sep)
RECURSIVE Join(_, _)
Join(parts, sep) ==
    IF parts = << >> THEN << >>
    ELSE IF Len(parts) = 1 THEN parts[1]
    ELSE parts[1] \o sep \o Join(Tail(parts), sep)

buildStatsLine(p, nowMs) == ThemeFg("dim", Join(StatsParts(p, nowMs), PartSep))

\* process.stderr.columns || 80
TermWidth(cols) == IF cols = 0 THEN 80 ELSE cols

\* a render that advances the spinner itself
renderAdvancingSpinner(p, nowMs, cols) ==
    IF ~p.isActive THEN [p |-> p, out |-> << >>]
    ELSE LET activityLine == buildActivityLine(p)
             statsLine == buildStatsLine(p, nowMs)
             termWidth == TermWidth(cols)
             displayActivity ==
                 IF visibleWidth(activityLine) > termWidth
                 THEN truncateToWidth(activityLine, termWidth)
                 ELSE activityLine
             displayStats ==
                 IF visibleWidth(statsLine) > termWidth
                 THEN truncateToWidth(statsLine, termWidth)
                 ELSE statsLine
         IN  [p |-> [p EXCEPT !.hasRenderedOnce = TRUE,
                              !.spinnerFrame = (@ + 1) % Len(SPINNER_FRAMES)],
              out |-> << [kind |-> "frame", moveUp |-> p.hasRenderedOnce,
                          activity |-> displayActivity,
                          stats |-> displayStats] >>]

\* render(): the instance after the call and the chunks it wrote.  A frame
\* is written as one chunk; the record keeps its two lines apart.
render(p, nowMs, cols) ==
    IF ~p.isActive THEN [p |-> p, out |-> << >>]
    ELSE LET activityLine == buildActivityLine(p)
             statsLine == buildStatsLine(p, nowMs)
             termWidth == TermWidth(cols)
             displayActivity ==
                 IF visibleWidth(activityLine) > termWidth
                 THEN truncateToWidth(activityLine, termWidth)
                 ELSE activityLine
             displayStats ==
                 IF visibleWidth(statsLine) > termWidth
                 THEN truncateToWidth(statsLine, termWidth)
                 ELSE statsLine
         IN  [p |-> [p EXCEPT !.hasRenderedOnce = TRUE],
              out |-> << [kind |-> "frame", moveUp |-> p.hasRenderedOnce,
                          activity |-> displayActivity,
                          stats |-> displayStats] >>]

ClearLine == << ESC, "[", "K" >>
CursorUp3 == << ESC, "[", "3", "A", CR >>

\* clearLines(): the chunk it writes
ClearChunk == [kind |-> "clear", moveUp |-> TRUE, activity |-> << >>,
               stats |-> << >>]

\* the code units of a chunk, as process.stderr.write receives them
ChunkBytes(c) ==
    IF c.kind = "frame"
    THEN (IF c.moveUp THEN CursorUp3 ELSE << >>) \o ClearLine \o << LF >>
           \o ClearLine \o c.activity \o << LF >>
           \o ClearLine \o c.stats \o << LF >>
           \o ClearLine
    ELSE CursorUp3 \o ClearLine \o << LF >> \o ClearLine \o << LF >>
           \o ClearLine \o << LF >> \o ClearLine \o CursorUp3

\* The terminal reading the code units written, with the cursor on row:
\* ESC[3A moves the cursor up 3 rows, ESC[K clears the row the cursor is on,
\* a newline moves it down one row; a carriage return, a style sequence and
\* a printed character keep the row.  Gives the row the cursor ends on and
\* the rows that were cleared.
TermEffect(bytes, row) ==
    LET at(k, seq) == k + Len(seq) - 1 <= Len(bytes)
                        /\ SubSeq(bytes, k, k + Len(seq) - 1) = seq
        rowAt(k) ==
            row + Cardinality({ i \in 1..(k - 1) : bytes[i] = LF })
                - 3 * Cardinality({ i \in 1..(k - 1) :
                                      at(i, << ESC, "[", "3", "A" >>) })
    IN  [row |-> rowAt(Len(bytes) + 1),
         cleared |-> { rowAt(k) : k \in { i \in 1..Len(bytes) :
                                            at(i, ClearLine) } }]

\* the row of the cursor after the chunks of one call were written
RowAfter(row, out) ==
    IF out = << >> THEN row
    ELSE TermEffect(ChunkBytes(out[1]), row).row

\* ------------------------------------------------------------------------
\* Operations of PrintModeProgress
\* ------------------------------------------------------------------------

\* a start() that keeps hasRenderedOnce of the session before
startKeepingRendered(p, model, thinkingLevel, nowMs, cols, handle) ==
    render([p EXCEPT !.model = model,
                     !.thinkingLevel = thinkingLevel,
                     !.startTime = nowMs,
                     !.isActive = TRUE,
                     !.hasReceivedStats = FALSE,
                     !.currentActivity = StartingText,
                     !.currentActivityType = "system",
                     !.context = [tokens |-> 0,
                                  window |-> IF model.present
                                             THEN model.contextWindow ELSE 0],
                     !.spinnerInterval = handle],
           nowMs, cols)

\* a start that leaves the activity as it was
startKeepingActivity(p, model, thinkingLevel, nowMs, cols, handle) ==
    render([p EXCEPT !.model = model,
                     !.thinkingLevel = thinkingLevel,
                     !.startTime = nowMs,
                     !.isActive = TRUE,
                     !.hasReceivedStats = FALSE,
                     !.context = [tokens |-> 0,
                                  window |-> IF model.present
                                             THEN model.contextWindow ELSE 0],
                     !.hasRenderedOnce = FALSE,
                     !.spinnerInterval = handle],
           nowMs, cols)

\* start(model, thinkingLevel) with Date.now() = nowMs; handle is the value
\* setInterval returns
start(p, model, thinkingLevel, nowMs, cols, handle) ==
    render([p EXCEPT !.model = model,
                     !.thinkingLevel = thinkingLevel,
                     !.startTime = nowMs,
                     !.isActive = TRUE,
                     !.hasReceivedStats = FALSE,
                     !.currentActivity = StartingText,
                     !.currentActivityType = "system",
                     !.context = [tokens |-> 0,
                                  window |-> IF model.present
                                             THEN model.contextWindow ELSE 0],
                     !.hasRenderedOnce = FALSE,
                     !.spinnerInterval = handle],
           nowMs, cols)

\* stop(): the instance after the call, the chunks written, the timer
\* handles passed to clearInterval
stop(p) ==
    [p |-> [p EXCEPT !.isActive = FALSE, !.spinnerInterval = 0],
     out |-> << ClearChunk >>,
     cleared |-> IF p.spinnerInterval # 0 THEN {p.spinnerInterval} ELSE {}]

\* a callback that stays on the last spinner frame
tickStoppingAtLast(p, nowMs, cols) ==
    render([p EXCEPT !.spinnerFrame =
                         IF @ + 1 = Len(SPINNER_FRAMES) THEN @ ELSE @ + 1],
           nowMs, cols)

\* the callback of the interval timer
tick(p, nowMs, cols) ==
    render([p EXCEPT !.spinnerFrame = (@ + 1) % Len(SPINNER_FRAMES)],
           nowMs, cols)

IsToolCall(c) == c.type = "toolCall"
IsThinking(c) == c.type = "thinking"
IsText(c) == c.type = "text"

\* an update that looks for thinking blocks before tool calls and takes the
\* first tool call
updateThinkingBeforeTools(p, content) ==
    LET toolCalls == SelectSeq(content, IsToolCall)
        thinkingBlocks == SelectSeq(content, IsThinking)
        textBlocks == SelectSeq(content, IsText)
    IN  IF Len(thinkingBlocks) > 0
        THEN LET lastThinking == thinkingBlocks[Len(thinkingBlocks)]
                 blank == lastThinking.thinking = Undefined
                            \/ Trim(lastThinking.thinking) = << >>
             IN  [p |-> [p EXCEPT !.currentActivity =
                                      IF blank THEN << >>
                                      ELSE normalizeText(lastThinking.thinking),
                                  !.currentActivityType = "thinking"],
                  threw |-> FALSE]
        ELSE IF Len(toolCalls) > 0
        THEN LET firstToolCall == toolCalls[1]
                 named == [p EXCEPT !.currentToolName = firstToolCall.name]
                 formatted == formatToolCall(firstToolCall)
             IN  IF formatted = Threw
                 THEN [p |-> named, threw |-> TRUE]
                 ELSE [p |-> [named EXCEPT !.currentActivity = formatted,
                                           !.currentActivityType = "tool"],
                       threw |-> FALSE]
        ELSE IF Len(textBlocks) > 0
                  /\ textBlocks[Len(textBlocks)].text # Undefined
                  /\ textBlocks[Len(textBlocks)].text # << >>
        THEN [p |-> [p EXCEPT !.currentActivity =
                                  normalizeText(textBlocks[Len(textBlocks)].text),
                              !.currentActivityType = "text"],
              threw |-> FALSE]
        ELSE [p |-> p, threw |-> FALSE]

\* an update that shows the first text block, not the last
updateFromFirstText(p, content) ==
    LET toolCalls == SelectSeq(content, IsToolCall)
        thinkingBlocks == SelectSeq(content, IsThinking)
        textBlocks == SelectSeq(content, IsText)
    IN  IF Len(toolCalls) > 0
        THEN LET lastToolCall == toolCalls[Len(toolCalls)]
                 named == [p EXCEPT !.currentToolName = lastToolCall.name]
                 formatted == formatToolCall(lastToolCall)
             IN  IF formatted = Threw
                 THEN [p |-> named, threw |-> TRUE]
                 ELSE [p |-> [named EXCEPT !.currentActivity = formatted,
                                           !.currentActivityType = "tool"],
                       threw |-> FALSE]
        ELSE IF Len(thinkingBlocks) > 0
        THEN LET lastThinking == thinkingBlocks[Len(thinkingBlocks)]
                 blank == lastThinking.thinking = Undefined
                            \/ Trim(lastThinking.thinking) = << >>
             IN  [p |-> [p EXCEPT !.currentActivity =
                                      IF blank THEN << >>
                                      ELSE normalizeText(lastThinking.thinking),
                                  !.currentActivityType = "thinking"],
                  threw |-> FALSE]
        ELSE IF Len(textBlocks) > 0
                  /\ textBlocks[1].text # Undefined
                  /\ textBlocks[1].text # << >>
        THEN [p |-> [p EXCEPT !.currentActivity =
                                  normalizeText(textBlocks[1].text),
                              !.currentActivityType = "text"],
              threw |-> FALSE]
        ELSE [p |-> p, threw |-> FALSE]

\* an update that falls back to "Working..." when the message has nothing
\* to show
updateResettingWhenEmpty(p, content) ==
    LET toolCalls == SelectSeq(content, IsToolCall)
        thinkingBlocks == SelectSeq(content, IsThinking)
        textBlocks == SelectSeq(content, IsText)
    IN  IF Len(toolCalls) > 0
        THEN LET lastToolCall == toolCalls[Len(toolCalls)]
                 named == [p EXCEPT !.currentToolName = lastToolCall.name]
                 formatted == formatToolCall(lastToolCall)
             IN  IF formatted = Threw
                 THEN [p |-> named, threw |-> TRUE]
                 ELSE [p |-> [named EXCEPT !.currentActivity = formatted,
                                           !.currentActivityType = "tool"],
                       threw |-> FALSE]
        ELSE IF Len(thinkingBlocks) > 0
        THEN LET lastThinking == thinkingBlocks[Len(thinkingBlocks)]
                 blank == lastThinking.thinking = Undefined
                            \/ Trim(lastThinking.thinking) = << >>
             IN  [p |-> [p EXCEPT !.currentActivity =
                                      IF blank THEN << >>
                                      ELSE normalizeText(lastThinking.thinking),
                                  !.currentActivityType = "thinking"],
                  threw |-> FALSE]
        ELSE IF Len(textBlocks) > 0
                  /\ textBlocks[Len(textBlocks)].text # Undefined
                  /\ textBlocks[Len(textBlocks)].text # << >>
        THEN [p |-> [p EXCEPT !.currentActivity =
                                  normalizeText(textBlocks[Len(textBlocks)].text),
                              !.currentActivityType = "text"],
              threw |-> FALSE]
        ELSE [p |-> [p EXCEPT !.currentActivity = WorkingText,
                              !.currentActivityType = "system"],
              threw |-> FALSE]

\* updateFromAssistantMessage(msg): the instance after the call and whether
\* the call threw
updateFromAssistantMessage(p, content) ==
    LET toolCalls == SelectSeq(content, IsToolCall)
        thinkingBlocks == SelectSeq(content, IsThinking)
        textBlocks == SelectSeq(content, IsText)
    IN  IF Len(toolCalls) > 0
        THEN LET lastToolCall == toolCalls[Len(toolCalls)]
                 named == [p EXCEPT !.currentToolName = lastToolCall.name]
                 formatted == formatToolCall(lastToolCall)
             IN  IF formatted = Threw
                 THEN [p |-> named, threw |-> TRUE]
                 ELSE [p |-> [named EXCEPT !.currentActivity = formatted,
                                           !.currentActivityType = "tool"],
                       threw |-> FALSE]
        ELSE IF Len(thinkingBlocks) > 0
        THEN LET lastThinking == thinkingBlocks[Len(thinkingBlocks)]
                 blank == lastThinking.thinking = Undefined
                            \/ Trim(lastThinking.thinking) = << >>
             IN  [p |-> [p EXCEPT !.currentActivity =
                                      IF blank THEN << >>
                                      ELSE normalizeText(lastThinking.thinking),
                                  !.currentActivityType = "thinking"],
                  threw |-> FALSE]
        ELSE IF Len(textBlocks) > 0
                  /\ textBlocks[Len(textBlocks)].text # Undefined
                  /\ textBlocks[Len(textBlocks)].text # << >>
        THEN [p |-> [p EXCEPT !.currentActivity =
                                  normalizeText(textBlocks[Len(textBlocks)].text),
                              !.currentActivityType = "text"],
              threw |-> FALSE]
        ELSE [p |-> p, threw |-> FALSE]

UsageTokens(u) == u.input + u.output + u.cacheRead + u.cacheWrite

\* a message_end case that adds the message to the context tokens
applyMessageEndAccumulating(p, u) ==
    [p EXCEPT !.usage = AddUsage(p.usage, u),
              !.context = [@ EXCEPT !.tokens = @ + UsageTokens(u)],
              !.hasReceivedStats = TRUE]

\* the message_end case of handleEvent, for an assistant message
applyMessageEnd(p, u) ==
    [p EXCEPT !.usage = AddUsage(p.usage, u),
              !.context = [@ EXCEPT !.tokens = UsageTokens(u)],
              !.hasReceivedStats = TRUE]

\* "Retrying (attempt/maxAttempts)..."
RetryingText(attempt, maxAttempts) ==
    RetryingPrefix \o << " ", "(" >> \o IntToString(attempt) \o << "/" >>
      \o IntToString(maxAttempts) \o << ")", ".", ".", "." >>

\* a switch whose lifecycle cases set the text and leave the activity type
dispatchKeepingType(p, event) ==
    CASE event.type = "message_start" ->
           IF event.role = "assistant"
           THEN [p |-> [p EXCEPT !.currentActivity = WorkingText],
                 threw |-> FALSE]
           ELSE [p |-> p, threw |-> FALSE]
      [] event.type = "message_update" ->
           IF event.role = "assistant"
           THEN updateFromAssistantMessage(p, event.content)
           ELSE [p |-> p, threw |-> FALSE]
      [] event.type = "message_end" ->
           IF event.role = "assistant"
           THEN [p |-> applyMessageEnd(p, event.usage), threw |-> FALSE]
           ELSE [p |-> p, threw |-> FALSE]
      [] event.type = "auto_compaction_start" ->
           [p |-> [p EXCEPT !.currentActivity = CompactingText],
            threw |-> FALSE]
      [] event.type = "auto_retry_start" ->
           [p |-> [p EXCEPT !.currentActivity =
                                RetryingText(event.attempt, event.maxAttempts)],
            threw |-> FALSE]
      [] OTHER -> [p |-> p, threw |-> FALSE]

\* a switch that does not look at the role of the message
dispatchAnyRole(p, event) ==
    CASE event.type = "message_start" ->
           [p |-> [p EXCEPT !.currentActivity = WorkingText,
                            !.currentActivityType = "system"],
            threw |-> FALSE]
      [] event.type = "message_update" ->
           updateFromAssistantMessage(p, event.content)
      [] event.type = "message_end" ->
           [p |-> applyMessageEnd(p, event.usage), threw |-> FALSE]
      [] event.type = "auto_compaction_start" ->
           [p |-> [p EXCEPT !.currentActivity = CompactingText,
                            !.currentActivityType = "system"],
            threw |-> FALSE]
      [] event.type = "auto_retry_start" ->
           [p |-> [p EXCEPT !.currentActivity =
                                RetryingText(event.attempt, event.maxAttempts),
                            !.currentActivityType = "system"],
            threw |-> FALSE]
      [] OTHER -> [p |-> p, threw |-> FALSE]

\* the switch of handleEvent: the instance after it and whether it threw
dispatchEvent(p, event) ==
    CASE event.type = "message_start" ->
           IF event.role = "assistant"
           THEN [p |-> [p EXCEPT !.currentActivity = WorkingText,
                                 !.currentActivityType = "system"],
                 threw |-> FALSE]
           ELSE [p |-> p, threw |-> FALSE]
      [] event.type = "message_update" ->
           IF event.role = "assistant"
           THEN updateFromAssistantMessage(p, event.content)
           ELSE [p |-> p, threw |-> FALSE]
      [] event.type = "message_end" ->
           IF event.role = "assistant"
           THEN [p |-> applyMessageEnd(p, event.usage), threw |-> FALSE]
           ELSE [p |-> p, threw |-> FALSE]
      [] event.type = "auto_compaction_start" ->
           [p |-> [p EXCEPT !.currentActivity = CompactingText,
                            !.currentActivityType = "system"],
            threw |-> FALSE]
      [] event.type = "auto_retry_start" ->
           [p |-> [p EXCEPT !.currentActivity =
                                RetryingText(event.attempt, event.maxAttempts),
                            !.currentActivityType = "system"],
            threw |-> FALSE]
      [] OTHER -> [p |-> p, threw |-> FALSE]

\* a handleEvent without the isActive guard
handleEventUnguarded(p, event, nowMs, cols) ==
    LET d == dispatchEvent(p, event)
    IN  IF d.threw THEN [p |-> d.p, out |-> << >>, threw |-> TRUE]
        ELSE LET r == render(d.p, nowMs, cols)
             IN  [p |-> r.p, out |-> r.out, threw |-> FALSE]

\* a handleEvent that renders before it applies the event
handleEventRenderFirst(p, event, nowMs, cols) ==
    IF ~p.isActive THEN [p |-> p, out |-> << >>, threw |-> FALSE]
    ELSE LET r == render(p, nowMs, cols)
             d == dispatchEvent(r.p, event)
         IN  [p |-> d.p, out |-> r.out, threw |-> d.threw]

\* handleEvent(event): the instance after the call, the chunks written and
\* whether the call threw
handleEvent(p, event, nowMs, cols) ==
    IF ~p.isActive THEN [p |-> p, out |-> << >>, threw |-> FALSE]
    ELSE LET d == dispatchEvent(p, event)
         IN  IF d.threw THEN [p |-> d.p, out |-> << >>, threw |-> TRUE]
             ELSE LET r == render(d.p, nowMs, cols)
                  IN  [p |-> r.p, out |-> r.out, threw |-> FALSE]

\* ------------------------------------------------------------------------
\* Inputs
\* ------------------------------------------------------------------------
PlainModel == [present |-> TRUE, id |-> << "m", "0" >>, contextWindow |-> 0,
               reasoning |-> FALSE]
ReasoningModel == [present |-> TRUE, id |-> << "m", "1" >>,
                   contextWindow |-> 1000, reasoning |-> TRUE]

ToolCall(name, args) ==
    [type |-> "toolCall", name |-> name, arguments |-> args,
     thinking |-> Undefined, text |-> Undefined]
ThinkingBlock(t) ==
    [type |-> "thinking", name |-> << >>, arguments |-> << >>,
     thinking |-> t, text |-> Undefined]
TextBlock(t) ==
    [type |-> "text", name |-> << >>, arguments |-> << >>,
     thinking |-> Undefined, text |-> t]

BashContent ==
    << ToolCall(BashName,
                << << "command", << "l", "s", LF, " ", "-", "l" >> >> >>) >>

SmallUsage == [input |-> 100, output |-> 50, cacheRead |-> 0,
               cacheWrite |-> 0, cost |-> 100]
LargeUsage == [input |-> 500, output |-> 200, cacheRead |-> 200,
               cacheWrite |-> 50, cost |-> 125]

Event(type, role, content, usage, attempt, maxAttempts) ==
    [type |-> type, role |-> role, content |-> content, usage |-> usage,
     attempt |-> attempt, maxAttempts |-> maxAttempts]

NoEvent == Event("none", "none", << >>, ZeroUsage, 0, 0)

MessageStart(role) == Event("message_start", role, << >>, ZeroUsage, 0, 0)
MessageUpdate(role, content) ==
    Event("message_update", role, content, ZeroUsage, 0, 0)
MessageEnd(role, usage) == Event("message_end", role, << >>, usage, 0, 0)
CompactionStart == Event("auto_compaction_start", "none", << >>, ZeroUsage, 0, 0)
RetryStart(attempt, maxAttempts) ==
    Event("auto_retry_start", "none", << >>, ZeroUsage, attempt, maxAttempts)
AgentStart == Event("agent_start", "none", << >>, ZeroUsage, 0, 0)

\* inputs of the lifecycle specification: every event kind, both roles
LifeStarts == { << ReasoningModel, "high" >> }
LifeEvents ==
    { MessageStart("assistant"), MessageStart("user"),
      MessageUpdate("assistant", BashContent),
      MessageUpdate("user", << TextBlock(<< "h", "i" >>) >>),
      MessageEnd("assistant", SmallUsage), MessageEnd("user", SmallUsage),
      CompactionStart, RetryStart(2, 3), AgentStart }

\* inputs of the usage specification: models with and without a context
\* window, messages with different usage
UsageStarts == { << NoModel, "off" >>, << PlainModel, "off" >>,
                 << ReasoningModel, "high" >> }
UsageEvents ==
    { MessageStart("assistant"),
      MessageEnd("assistant", SmallUsage), MessageEnd("assistant", LargeUsage),
      MessageEnd("user", LargeUsage) }

ColumnChoices == {0, 20}

\* the pieces input texts of truncateToWidth are built from
TruncPieces ==
    { << "a" >>, << HI, LO >>, << ESC, "[", "0", "m" >>, << ESC, "[" >>,
      << "m" >> }

RECURSIVE Flatten(_)
Flatten(ss) == IF ss = << >> THEN << >> ELSE Head(ss) \o Flatten(Tail(ss))

TruncTexts ==
    { Flatten(ps) : ps \in UNION { [1..n -> TruncPieces] : n \in 0..MaxLen } }

Pending == << "<pending>" >>

\* ------------------------------------------------------------------------
\* The display under the calls of any client
\* ------------------------------------------------------------------------
Op(op, event, wasActive, threw) ==
    [op |-> op, event |-> event, wasActive |-> wasActive, threw |-> threw]

\* runPrintMode has not been called
NoRun == [pc |-> "none"]

InitDisplay ==
    /\ progress = NewProgress(0)
    /\ timers = {}
    /\ now = 0
    /\ written = << >>
    /\ lastOp = Op("new", NoEvent, FALSE, FALSE)
    /\ sessionUsage = ZeroUsage
    /\ endsHandled = 0
    /\ ticksRun = 0
    /\ cursorRow = 0

NoTrunc ==
    /\ tText = << >>
    /\ tMaxWidth = 0
    /\ tResult = Pending
    /\ fCount = 0
    /\ fResult = Pending

Init ==
    /\ InitDisplay
    /\ columns \in ColumnChoices
    /\ run = NoRun
    /\ NoTrunc

\* setInterval: a handle that no live timer has
FreshHandle == CHOOSE h \in 1..MaxTimers :
                   h \notin timers /\ \A g \in 1..(h - 1) : g \in timers

\* progress.start(m, lvl)
CallStart(m, lvl) ==
    /\ Cardinality(timers) < MaxTimers
    /\ LET r == start(progress, m, lvl, now, columns, FreshHandle)
       IN  /\ progress' = r.p
           /\ written' = r.out
    /\ timers' = timers \cup {FreshHandle}
    /\ lastOp' = Op("start", NoEvent, progress.isActive, FALSE)
    /\ sessionUsage' = ZeroUsage
    /\ cursorRow' = RowAfter(0, written')
    /\ UNCHANGED << now, columns, endsHandled, ticksRun >>

\* progress.stop()
CallStop ==
    /\ cursorRow - 3 >= -MaxAbove
    /\ LET r == stop(progress)
       IN  /\ progress' = r.p
           /\ written' = r.out
           /\ timers' = timers \ r.cleared
    /\ lastOp' = Op("stop", NoEvent, progress.isActive, FALSE)
    /\ cursorRow' = RowAfter(cursorRow, written')
    /\ UNCHANGED << now, columns, sessionUsage, endsHandled, ticksRun >>

IsHandledEnd(e) ==
    progress.isActive /\ e.type = "message_end" /\ e.role = "assistant"

\* progress.handleEvent(e); lastOp keeps the event when the display was
\* active
CallHandleEvent(e) ==
    /\ IsHandledEnd(e) => endsHandled < MaxEnds
    /\ cursorRow <= 3 + MaxAbove
    /\ LET r == handleEvent(progress, e, now, columns)
       IN  /\ progress' = r.p
           /\ written' = r.out
           /\ lastOp' = Op("handleEvent",
                           IF progress.isActive THEN e ELSE NoEvent,
                           progress.isActive, r.threw)
    /\ sessionUsage' = IF IsHandledEnd(e) THEN AddUsage(sessionUsage, e.usage)
                       ELSE sessionUsage
    /\ endsHandled' = IF IsHandledEnd(e) THEN endsHandled + 1 ELSE endsHandled
    /\ cursorRow' = RowAfter(cursorRow, written')
    /\ UNCHANGED << timers, now, columns, ticksRun >>

\* the callback of the live interval timer h runs
TimerFires(h) ==
    /\ h \in timers
    /\ ticksRun < MaxTicks
    /\ cursorRow <= 3 + MaxAbove
    /\ LET r == tick(progress, now, columns)
       IN  /\ progress' = r.p
           /\ written' = r.out
    /\ lastOp' = Op("tick", NoEvent, progress.isActive, FALSE)
    /\ ticksRun' = ticksRun + 1
    /\ cursorRow' = RowAfter(cursorRow, written')
    /\ UNCHANGED << timers, now, columns, sessionUsage, endsHandled >>

Start(m, lvl) == CallStart(m, lvl) /\ UNCHANGED << run, truncVars >>

Stop == CallStop /\ UNCHANGED << run, truncVars >>

HandleEvent(e) == CallHandleEvent(e) /\ UNCHANGED << run, truncVars >>

Tick(h) == TimerFires(h) /\ UNCHANGED << run, truncVars >>

Next ==
    \/ \E s \in LifeStarts : Start(s[1], s[2])
    \/ Stop
    \/ \E e \in LifeEvents : HandleEvent(e)
    \/ \E h \in 1..MaxTimers : Tick(h)

Spec == Init /\ [][Next]_vars

NextUsage ==
    \/ \E s \in UsageStarts : Start(s[1], s[2])
    \/ Stop
    \/ \E e \in UsageEvents : HandleEvent(e)
    \/ \E h \in 1..MaxTimers : Tick(h)

SpecUsage == Init /\ [][NextUsage]_vars

\* inputs of the activity specification: the contents of assistant
\* messages while they stream
ActivityContents ==
    [mixed |-> << ToolCall(ReadName, << << "path", HomeDir \o << "/", "f" >> >> >>),
                  ThinkingBlock(<< "t" >>),
                  ToolCall(BashName,
                           << << "command", << "l", "s", LF, " ", "-", "l" >> >> >>),
                  TextBlock(<< "x" >>) >>,
     thinking |-> << TextBlock(<< "x" >>), ThinkingBlock(<< "a" >>),
                     ThinkingBlock(<< " ", "b", TAB, "c", " " >>) >>,
     blankThinking |-> << ThinkingBlock(<< "a" >>),
                          ThinkingBlock(<< " ", LF >>) >>,
     text |-> << TextBlock(<< "a" >>),
                 TextBlock(<< "b", LF, LF, "c" >>) >>,
     emptyText |-> << TextBlock(<< "a" >>), TextBlock(<< >>) >>,
     none |-> << >>]

ActivityEvents ==
    { MessageUpdate("assistant", ActivityContents[k]) :
        k \in DOMAIN ActivityContents }
      \cup { MessageStart("assistant"), CompactionStart, RetryStart(2, 3) }

NextActivity ==
    \/ \E s \in LifeStarts : Start(s[1], s[2])
    \/ Stop
    \/ \E e \in ActivityEvents : HandleEvent(e)
    \/ \E h \in 1..MaxTimers : Tick(h)

SpecActivity == Init /\ [][NextActivity]_vars

\* a display that ran an earlier session: start(), k timer callbacks, each
\* of which added one to spinnerFrame, and stop(); k is such that the
\* callbacks of the next session pass the end of SPINNER_FRAMES
InitSpinner ==
    /\ progress \in
         { [stop(start(NewProgress(0), ReasoningModel, "high", 0, 0, 1).p).p
              EXCEPT !.spinnerFrame = k] :
             k \in {Len(SPINNER_FRAMES) - 2, Len(SPINNER_FRAMES) - 1} }
    /\ timers = {}
    /\ now = 0
    /\ written = << ClearChunk >>
    /\ lastOp = Op("stop", NoEvent, TRUE, FALSE)
    /\ sessionUsage = ZeroUsage
    /\ endsHandled = 0
    /\ ticksRun = 0
    /\ cursorRow = 0
    /\ columns \in ColumnChoices
    /\ run = NoRun
    /\ NoTrunc

SpecSpinner == InitSpinner /\ [][NextActivity]_vars

\* n copies of the unit c
RECURSIVE Repeat(_, _)
Repeat(c, n) == IF n = 0 THEN << >> ELSE << c >> \o Repeat(c, n - 1)

\* inputs of the tool specification: tool calls with long, missing and
\* unknown arguments, and a text of astral characters
ToolContents ==
    [longBash |-> << ToolCall(BashName,
                              << << "command",
                                    Repeat("x", 20) \o << LF, TAB >>
                                      \o Repeat("y", 20) >> >>) >>,
     readNoPath |-> << ToolCall(ReadName, << >>) >>,
     grepNoPath |-> << ToolCall(GrepName, << << "pattern", << "T" >> >> >>) >>,
     bashNoCommand |-> << ToolCall(BashName, << >>) >>,
     noArguments |-> << ToolCall(ReadName, NoArguments) >>,
     customShort |-> << ToolCall(<< "x" >>,
                                 << << "path", Repeat("a", 29) >> >>) >>,
     customLong |-> << ToolCall(<< "x" >>,
                                << << "path", Repeat("a", 30) >> >>) >>,
     astralText |-> << TextBlock(<< HI, LO, HI, LO, HI, LO >>) >>]

\* the terminal is resized: process.stderr.columns changes between two calls
Resize(c) ==
    /\ c # columns
    /\ columns' = c
    /\ written' = << >>
    /\ lastOp' = Op("resize", NoEvent, progress.isActive, FALSE)
    /\ UNCHANGED << progress, timers, now, sessionUsage, endsHandled, ticksRun,
                    cursorRow, run, truncVars >>

NextTools ==
    \/ \E s \in LifeStarts : Start(s[1], s[2])
    \/ Stop
    \/ \E k \in DOMAIN ToolContents :
         HandleEvent(MessageUpdate("assistant", ToolContents[k]))
    \/ \E h \in 1..MaxTimers : Tick(h)
    \/ \E c \in {0, 6, 20} : Resize(c)

SpecTools == Init /\ [][NextTools]_vars

\* the line specification: tool names, argument values and contents that
\* hold line breaks
NextLines ==
    \/ \E s \in LifeStarts : Start(s[1], s[2])
    \/ Stop
    \/ \E c \in { << ToolCall(GrepName,
                              << << "pattern", << "a", LF, "b" >> >> >>) >>,
                  << ToolCall(ReadName,
                              << << "path", << "a", CR, "b" >> >> >>) >>,
                  << ToolCall(<< "x", LF, "y" >>, << >>) >>,
                  << ToolCall(<< "x" >>,
                              << << "path", << "a", LF, "b" >> >> >>) >>,
                  BashContent,
                  << ThinkingBlock(<< "a", LF, "b" >>) >>,
                  << TextBlock(<< "a", CR, LF, "b" >>) >> } :
         HandleEvent(MessageUpdate("assistant", c))
    \/ \E h \in 1..MaxTimers : Tick(h)

SpecLines == Init /\ [][NextLines]_vars

\* inputs of the stats specification: models that can and cannot reason,
\* with and without a thinking level, and messages that fill the context
\* window of 1000 tokens to 70%, just above 70%, 90% and just above 90%
StatsStarts ==
    { << ReasoningModel, "high" >>, << ReasoningModel, "off" >>,
      << PlainModel, "high" >> }

\* time passes: Date.now() reaches t
AdvanceClock(t) ==
    /\ t > now
    /\ now' = t
    /\ written' = << >>
    /\ lastOp' = Op("clock", NoEvent, progress.isActive, FALSE)
    /\ UNCHANGED << progress, timers, columns, sessionUsage, endsHandled,
                    ticksRun, cursorRow, run, truncVars >>

NextStats ==
    \/ \E s \in StatsStarts : Start(s[1], s[2])
    \/ Stop
    \/ \E tokens \in {700, 701, 900, 901} :
         HandleEvent(MessageEnd("assistant",
                                [input |-> tokens, output |-> 0,
                                 cacheRead |-> 0, cacheWrite |-> 0,
                                 cost |-> 0]))
    \/ \E h \in 1..MaxTimers : Tick(h)

SpecStats == Init /\ [][NextStats]_vars

NextClock ==
    \/ \E s \in LifeStarts : Start(s[1], s[2])
    \/ Stop
    \/ \E h \in 1..MaxTimers : Tick(h)
    \/ \E t \in {5000, 59999, 60000, 125000} : AdvanceClock(t)

SpecClock == Init /\ [][NextClock]_vars

\* ------------------------------------------------------------------------
\* runPrintMode driving the display
\* ------------------------------------------------------------------------
MaxMessages == 1   \* prompts in the messages array
MaxErrors == 1     \* console.error calls of the extension handlers

\* quiet?: boolean -- true, false or undefined
QuietChoices == {"true", "false", "undefined"}

\* a decision that does not look at the quiet flag
shouldShowProgressIgnoringQuiet(mode, isTTY, quiet) ==
    mode = "text" /\ isTTY

shouldShowProgress(mode, isTTY, quiet) ==
    mode = "text" /\ isTTY /\ quiet # "true"

\* inputs of the driver specification
DriverEvents ==
    { MessageStart("assistant"), MessageEnd("assistant", SmallUsage),
      RetryStart(2, 3) }

\* state.messages[state.messages.length - 1] when a prompt has resolved
SessionMessage(role, stopReason, errorMessage, content) ==
    [role |-> role, stopReason |-> stopReason, errorMessage |-> errorMessage,
     content |-> content]

LastMessages ==
    { SessionMessage("assistant", "stop", Undefined,
                     << TextBlock(<< "a" >>), BashContent[1],
                        TextBlock(<< "b" >>) >>),
      SessionMessage("assistant", "error", << "b", "o", "o", "m" >>,
                     << TextBlock(<< "a" >>) >>),
      SessionMessage("assistant", "error", Undefined, << >>),
      SessionMessage("assistant", "aborted", << >>,
                     << TextBlock(<< "a" >>) >>),
      SessionMessage("toolResult", "none", Undefined,
                     << TextBlock(<< "r" >>) >>) }

\* runPrintMode was called: its arguments, and the locals it will set
RunEntry(mode, isTTY, quiet, initialMessage, messages) ==
    [pc |-> "entry", mode |-> mode, isTTY |-> isTTY, quiet |-> quiet,
     initialMessage |-> initialMessage, messages |-> messages,
     hasProgress |-> FALSE,
     lastMessage |-> SessionMessage("none", "none", Undefined, << >>),
     printed |-> "nothing", stdout |-> << >>, stderr |-> << >>,
     exitCode |-> "none", consoleErrors |-> 0]

InitDriver ==
    /\ InitDisplay
    /\ columns \in ColumnChoices
    /\ run \in { RunEntry(mode, isTTY, quiet, initialMessage, messages) :
                   mode \in {"text", "json"}, isTTY \in BOOLEAN,
                   quiet \in QuietChoices, initialMessage \in BOOLEAN,
                   messages \in 0..MaxMessages }
    /\ NoTrunc

\* const progress = showProgress ? new PrintModeProgress() : null
RunCreate ==
    /\ run.pc = "entry"
    /\ run' = [run EXCEPT !.pc = "start",
                          !.hasProgress =
                              shouldShowProgress(run.mode, run.isTTY, run.quiet)]
    /\ progress' = NewProgress(now)
    /\ written' = << >>
    /\ lastOp' = Op("new", NoEvent, FALSE, FALSE)
    /\ UNCHANGED << timers, now, columns, sessionUsage, endsHandled, ticksRun,
                    cursorRow, truncVars >>

\* if (progress) progress.start(...); session.subscribe(...)
RunStart ==
    /\ run.pc = "start"
    /\ run' = [run EXCEPT !.pc = "prompts"]
    /\ IF run.hasProgress THEN CallStart(ReasoningModel, "high")
       ELSE UNCHANGED displayVars
    /\ UNCHANGED truncVars

\* the next await session.prompt(...) begins, or the prompts are done
RunPrompt ==
    /\ run.pc = "prompts"
    /\ run' = IF run.initialMessage
              THEN [run EXCEPT !.pc = "awaiting", !.initialMessage = FALSE]
              ELSE IF run.messages > 0
              THEN [run EXCEPT !.pc = "awaiting", !.messages = @ - 1]
              ELSE [run EXCEPT !.pc = "stop"]
    /\ UNCHANGED << displayVars, truncVars >>

\* the session delivers an event to the subscriber during a prompt
SessionEvent(e) ==
    /\ run.pc = "awaiting"
    /\ IF run.hasProgress THEN CallHandleEvent(e)
       ELSE UNCHANGED displayVars
    /\ UNCHANGED << run, truncVars >>

\* an extension fails while session_start is emitted or while a prompt
\* runs: the onError listener, or the catch of sendMessageHandler or
\* sendUserMessageHandler, calls console.error, which writes the message and
\* a newline to stderr
ExtensionError(handler) ==
    /\ run.pc \in {"start", "awaiting"}
    /\ run.consoleErrors < MaxErrors
    /\ run' = [run EXCEPT !.consoleErrors = @ + 1]
    /\ written' = << [kind |-> "console", moveUp |-> FALSE,
                      activity |-> << >>, stats |-> << >>] >>
    /\ lastOp' = Op(handler, NoEvent, progress.isActive, FALSE)
    /\ cursorRow' = cursorRow + 1
    /\ UNCHANGED << progress, timers, now, columns, sessionUsage, endsHandled,
                    ticksRun, truncVars >>

\* session.prompt resolves; message is then the last message of the session
PromptResolves(message) ==
    /\ run.pc = "awaiting"
    /\ run' = [run EXCEPT !.pc = "prompts", !.lastMessage = message]
    /\ UNCHANGED << displayVars, truncVars >>

\* session.prompt rejects, and with it runPrintMode
PromptRejects ==
    /\ run.pc = "awaiting"
    /\ run' = [run EXCEPT !.pc = "rejected"]
    /\ UNCHANGED << displayVars, truncVars >>

\* a driver that goes on to the final output without stopping the display
RunStopSkipped ==
    /\ run.pc = "stop"
    /\ run' = [run EXCEPT !.pc = "output"]
    /\ UNCHANGED << displayVars, truncVars >>

\* if (progress) progress.stop()
RunStop ==
    /\ run.pc = "stop"
    /\ run' = [run EXCEPT !.pc = "output"]
    /\ IF run.hasProgress THEN CallStop ELSE UNCHANGED displayVars
    /\ UNCHANGED truncVars

\* a final output that treats an aborted request as a completed one
RunOutputAbortedAsText ==
    /\ run.pc = "output"
    /\ LET m == run.lastMessage
           texts == SelectSeq(m.content, IsText)
       IN  run' = IF run.mode = "text" /\ m.role = "assistant"
                  THEN IF m.stopReason = "error"
                       THEN [run EXCEPT
                               !.pc = "exited", !.printed = "error",
                               !.stderr = OrElse(m.errorMessage,
                                                 << "R", "e", "q", "u", "e",
                                                    "s", "t", " ", "e", "r",
                                                    "r", "o", "r" >>),
                               !.exitCode = 1]
                       ELSE [run EXCEPT
                               !.pc = "flush", !.printed = "text",
                               !.stdout = [i \in 1..Len(texts) |-> texts[i].text]]
                  ELSE [run EXCEPT !.pc = "flush"]
    /\ UNCHANGED << displayVars, truncVars >>

\* the final response in text mode; process.exit(1) on error or aborted
RunOutput ==
    /\ run.pc = "output"
    /\ LET m == run.lastMessage
           requestReason ==
               << "R", "e", "q", "u", "e", "s", "t", " " >>
                 \o (IF m.stopReason = "error"
                     THEN << "e", "r", "r", "o", "r" >>
                     ELSE << "a", "b", "o", "r", "t", "e", "d" >>)
           texts == SelectSeq(m.content, IsText)
       IN  run' = IF run.mode = "text" /\ m.role = "assistant"
                  THEN IF m.stopReason \in {"error", "aborted"}
                       THEN [run EXCEPT
                               !.pc = "exited", !.printed = "error",
                               !.stderr = OrElse(m.errorMessage, requestReason),
                               !.exitCode = 1]
                       ELSE [run EXCEPT
                               !.pc = "flush", !.printed = "text",
                               !.stdout = [i \in 1..Len(texts) |-> texts[i].text]]
                  ELSE [run EXCEPT !.pc = "flush"]
    /\ UNCHANGED << displayVars, truncVars >>

\* the flush of stdout completes and runPrintMode returns
RunFlush ==
    /\ run.pc = "flush"
    /\ run' = [run EXCEPT !.pc = "returned"]
    /\ UNCHANGED << displayVars, truncVars >>

\* a timer callback runs while the process is alive
RunTick(h) ==
    /\ run.pc # "exited"
    /\ TimerFires(h)
    /\ UNCHANGED << run, truncVars >>

NextDriver ==
    \/ RunCreate
    \/ RunStart
    \/ RunPrompt
    \/ \E e \in DriverEvents : SessionEvent(e)
    \/ \E m \in LastMessages : PromptResolves(m)
    \/ PromptRejects
    \/ \E handler \in {"onError", "sendMessageHandler",
                        "sendUserMessageHandler"} : ExtensionError(handler)
    \/ RunStop
    \/ RunOutput
    \/ RunFlush
    \/ \E h \in 1..MaxTimers : RunTick(h)

SpecDriver == InitDriver /\ [][NextDriver]_vars

\* ------------------------------------------------------------------------
\* truncateToWidth applied to bounded inputs
\* ------------------------------------------------------------------------
InitTrunc ==
    /\ InitDisplay
    /\ columns = 0
    /\ run = NoRun
    /\ tText \in TruncTexts
    /\ tMaxWidth \in 0..MaxWidth
    /\ tResult = Pending
    /\ fCount = 0
    /\ fResult = Pending

Truncate ==
    /\ tResult = Pending
    /\ tResult' = truncateToWidth(tText, tMaxWidth)
    /\ UNCHANGED << displayVars, run, tText, tMaxWidth, fCount, fResult >>

NextTrunc == Truncate

SpecTrunc == InitTrunc /\ [][NextTrunc]_vars

\* ------------------------------------------------------------------------
\* formatTokens applied to bounded inputs
\* ------------------------------------------------------------------------
\* counts in every tier, at the tier boundaries and next to them
InitFormat ==
    /\ InitDisplay
    /\ columns = 0
    /\ run = NoRun
    /\ tText = << >>
    /\ tMaxWidth = 0
    /\ tResult = Pending
    /\ fCount \in { n * s : n \in 0..MaxCount,
                            s \in {1, 130, 1700, 130000, 1700000} }
                    \cup { b + d : b \in {1000, 10000, 1000000, 10000000},
                                   d \in {-1, 0, 1} }
                    \cup {1050, 10500, 200000, 1050000, 10500000}
    /\ fResult = Pending

FormatTokens ==
    /\ fResult = Pending
    /\ fResult' = formatTokens(fCount)
    /\ UNCHANGED << displayVars, run, tText, tMaxWidth, tResult, fCount >>

SpecFormat == InitFormat /\ [][FormatTokens]_vars

\* ------------------------------------------------------------------------
\* Properties
\* ------------------------------------------------------------------------
Min(a, b) == IF a <= b THEN a ELSE b

Contains(s, sub) ==
    \E i \in 1..(Len(s) - Len(sub) + 1) : SubSeq(s, i, i + Len(sub) - 1) = sub

EndsWith(s, suffix) ==
    Len(suffix) <= Len(s) /\ SubSeq(s, Len(s) - Len(suffix) + 1, Len(s)) = suffix

\* the last call rendered a frame
FrameWritten == written # << >> /\ written[1].kind = "frame"

\* no assistant message_end was handled since the last start()
BeforeFirstEnd == sessionUsage = ZeroUsage

\* the line is the output of the walking branch of truncateToWidth
Truncated(line) == EndsWith(line, ResetSeq \o Ellipsis)

\* what a frame shows of a line: the characters of the line, or those
\* before the ellipsis when the line was truncated
Shown(line) ==
    IF Truncated(line)
    THEN LET v == stripAnsi(line) IN SubSeq(v, 1, Len(v) - Len(Ellipsis))
    ELSE stripAnsi(line)

\* the stats line contains a context-occupancy segment
HasContextSegment(v) ==
    Contains(v, << "%", "/" >>) \/ Contains(v, Placeholder \o << "/" >>)

\* C1: a handleEvent call on a display that is not active (after stop())
\* writes nothing to the terminal and changes no field of the display,
\* whatever the event.
C1_HandleEventAfterStopIsNoOp ==
    [][(lastOp'.op = "handleEvent" /\ ~progress.isActive)
         => (written' = << >> /\ progress' = progress)]_vars

C1_Witness ==
    /\ lastOp.op = "handleEvent"
    /\ ~lastOp.wasActive
    /\ progress.currentActivity = CompactingText
    /\ progress.hasReceivedStats

\* C2: a timer callback that runs while the display is not active (between
\* stop() and the next start()) neither advances the spinner frame nor
\* writes a frame, and stop() leaves no interval timer live.
C2_TicksAfterStopAreNoOps ==
    [][(lastOp'.op = "tick" /\ ~progress.isActive)
         => (written' = << >>
             /\ progress'.spinnerFrame = progress.spinnerFrame)]_vars

\* C3: at most one interval timer is live at any instant, over any sequence
\* of start() and stop() calls.
C3_AtMostOneTimer == Cardinality(timers) <= 1

\* C4: whenever runPrintMode has ended (returned, rejected, or exited the
\* process) with a progress display it started, the display was stopped: it
\* is not active and its interval timer is cancelled.
C4_CleanOnEveryExit ==
    (run.pc \in {"returned", "rejected", "exited"} /\ run.hasProgress)
      => (~progress.isActive /\ timers = {})

\* C5: right after every start() call the usage totals are zero,
\* stats-received is false and the context tokens are 0.
C5_StartResetsAccumulators ==
    lastOp.op = "start"
      => /\ progress.usage = ZeroUsage
         /\ ~progress.hasReceivedStats
         /\ progress.context.tokens = 0

\* C6: the usage totals equal the sum of the usage of the assistant
\* message_end events handled since the last start().
C6_UsageIsSessionSum == progress.usage = sessionUsage

\* C7: a handled assistant message_end sets the context tokens to the four
\* token counts of that message alone and leaves the window capacity as it
\* was.
C7_ContextReplaced ==
    [][(lastOp'.op = "handleEvent" /\ lastOp'.event.type = "message_end"
          /\ lastOp'.event.role = "assistant")
         => (/\ progress'.context.tokens = UsageTokens(lastOp'.event.usage)
             /\ progress'.context.window = progress.context.window)]_vars

C7_Witness ==
    /\ lastOp.op = "handleEvent"
    /\ lastOp.event = MessageEnd("assistant", SmallUsage)
    /\ progress.usage = AddUsage(LargeUsage, SmallUsage)
    /\ progress.context = [tokens |-> 150, window |-> 1000]

\* the visible text of the placeholder segments, and of the context
\* placeholder that follows them when the window capacity is > 0
PlaceholderStats(window) ==
    Join(PlaceholderParts
           \o (IF window > 0
               THEN << Placeholder \o << "/" >> \o formatTokens(window) >>
               ELSE << >>),
         PartSep)

\* C8 as stated: every frame rendered before the first assistant
\* message_end of the session shows the five placeholder segments, and
\* ---/<formattedWindow> when the window capacity is > 0.
C8_PlaceholdersInEveryFrame ==
    (FrameWritten /\ BeforeFirstEnd)
      => StartsWith(stripAnsi(written[1].stats),
                    PlaceholderStats(progress.context.window))

\* C8 amended: in every frame rendered before the first assistant
\* message_end of the session, what the frame shows of the stats line agrees
\* with the placeholder segments (and ---/<formattedWindow> when the window
\* capacity is > 0) as far as it reaches, so no number is shown for usage,
\* and it shows all of them when the line was not cut to the terminal width.
C8_PlaceholdersUpToTerminalWidth ==
    (FrameWritten /\ BeforeFirstEnd)
      => LET shown == Shown(written[1].stats)
             expected == PlaceholderStats(progress.context.window)
             k == Min(Len(shown), Len(expected))
         IN  /\ SubSeq(shown, 1, k) = SubSeq(expected, 1, k)
             /\ ~Truncated(written[1].stats) => Len(shown) >= Len(expected)

C8_Witness ==
    /\ FrameWritten
    /\ BeforeFirstEnd
    /\ lastOp.op = "tick"
    /\ progress.context.window > 0
    /\ ~Truncated(written[1].stats)

\* C9 as stated: a frame's stats line contains the context-occupancy
\* segment if and only if the window capacity is > 0.
C9_ContextSegmentIffWindow ==
    FrameWritten
      => (HasContextSegment(stripAnsi(written[1].stats))
            <=> progress.context.window > 0)

\* C9 amended: a frame's stats line contains the context-occupancy segment
\* only if the window capacity is > 0, and contains it whenever the window
\* capacity is > 0 and the line was not cut to the terminal width.
C9_ContextSegmentUpToTerminalWidth ==
    FrameWritten
      => LET v == stripAnsi(written[1].stats)
         IN  /\ HasContextSegment(v) => progress.context.window > 0
             /\ (progress.context.window > 0 /\ ~Truncated(written[1].stats))
                  => HasContextSegment(v)

C9_Witness ==
    /\ FrameWritten
    /\ progress.hasReceivedStats
    /\ progress.context.window > 0
    /\ Contains(stripAnsi(written[1].stats), << "%", "/" >>)

\* C10: the result of truncateToWidth is at most maxWidth wide.
C10_TruncatedFits ==
    tResult # Pending => visibleWidth(tResult) <= tMaxWidth

\* C11: truncateToWidth returns its input unchanged whenever the input is
\* at most maxWidth wide.
C11_IdentityBelowThreshold ==
    (tResult # Pending /\ visibleWidth(tText) <= tMaxWidth)
      => tResult = tText

C11_Witness ==
    /\ tResult # Pending
    /\ tMaxWidth >= 2
    /\ visibleWidth(tText) = tMaxWidth
    /\ Contains(tText, ResetSeq)
    /\ tResult = tText

\* the part of a truncated result before the reset sequence and the ellipsis
CutBody(result) ==
    SubSeq(result, 1, Len(result) - Len(ResetSeq) - Len(Ellipsis))

\* C12: for an input wider than maxWidth and maxWidth above the ellipsis
\* width, the result is a prefix of the input (so every style sequence kept
\* is whole and in its place) that ends at the plain character number
\* maxWidth - ellipsisWidth and holds exactly that many plain characters,
\* followed by the reset sequence and the ellipsis.
C12_WalkCopiesPrefix ==
    (tResult # Pending /\ visibleWidth(tText) > tMaxWidth
       /\ tMaxWidth > Len(Ellipsis))
      => /\ EndsWith(tResult, ResetSeq \o Ellipsis)
         /\ LET body == CutBody(tResult)
                targetWidth == tMaxWidth - Len(Ellipsis)
            IN  /\ StartsWith(tText, body)
                /\ stripAnsi(body) = SubSeq(stripAnsi(tText), 1, targetWidth)
                /\ visibleWidth(SubSeq(body, 1, Len(body) - 1))
                     = targetWidth - 1

\* C13: for an input wider than maxWidth and maxWidth below the ellipsis
\* width, the result is the first maxWidth characters of the ellipsis and
\* nothing else.
C13_DegenerateIsCutEllipsis ==
    (tResult # Pending /\ visibleWidth(tText) > tMaxWidth
       /\ tMaxWidth < Len(Ellipsis))
      => /\ tResult = SubSeq(Ellipsis, 1, tMaxWidth)
         /\ visibleWidth(tResult) = tMaxWidth

C13_Witness ==
    /\ tResult = << ".", "." >>
    /\ tMaxWidth = 2
    /\ visibleWidth(tText) > tMaxWidth
    /\ Contains(tText, ResetSeq)

\* the activity state of the display: type, tool name, detail text
ActivityState(p) ==
    << p.currentActivityType, p.currentToolName, p.currentActivity >>

\* the last block of a message content that is a tool call, a thinking
\* block, a text block
LastToolCall(content) ==
    LET f == SelectSeq(content, IsToolCall) IN f[Len(f)]
LastThinking(content) ==
    LET f == SelectSeq(content, IsThinking) IN f[Len(f)]
LastText(content) ==
    LET f == SelectSeq(content, IsText) IN f[Len(f)]

HasToolCall(content) == \E i \in 1..Len(content) : IsToolCall(content[i])
HasThinking(content) == \E i \in 1..Len(content) : IsThinking(content[i])
HasText(content) == \E i \in 1..Len(content) : IsText(content[i])

\* the last call was handleEvent, on an active display, with an assistant
\* message_update
HandledUpdate(op) ==
    /\ op.op = "handleEvent"
    /\ op.wasActive
    /\ op.event.type = "message_update"
    /\ op.event.role = "assistant"

\* C14: after an assistant message_update with a tool call, the activity is
\* Tool with the name and the formatted arguments of the last tool call,
\* whatever else the message holds; with no tool call but a thinking block,
\* it is Thinking with the normalized text of the last thinking block, or
\* with an empty detail when that text is blank.
C14_ToolThenThinkingPriority ==
    HandledUpdate(lastOp)
      => LET c == lastOp.event.content
         IN  /\ HasToolCall(c)
                  => ActivityState(progress)
                       = << "tool", LastToolCall(c).name,
                            formatToolCall(LastToolCall(c)) >>
             /\ (~HasToolCall(c) /\ HasThinking(c))
                  => /\ progress.currentActivityType = "thinking"
                     /\ progress.currentActivity
                          = IF Trim(LastThinking(c).thinking) = << >>
                            THEN << >>
                            ELSE normalizeText(LastThinking(c).thinking)

C14_Witness ==
    /\ HandledUpdate(lastOp)
    /\ lastOp.event.content = ActivityContents.mixed
    /\ ActivityState(progress)
         = << "tool", BashName, << "l", "s", " ", "-", "l" >> >>

\* C15 as stated: after an assistant message_update with no tool call and
\* no thinking block but at least one text block, the activity is Text with
\* the normalized text of the last text block.
C15_TextFromLastBlock ==
    (HandledUpdate(lastOp)
       /\ ~HasToolCall(lastOp.event.content)
       /\ ~HasThinking(lastOp.event.content)
       /\ HasText(lastOp.event.content))
      => /\ progress.currentActivityType = "text"
         /\ progress.currentActivity
              = normalizeText(LastText(lastOp.event.content).text)

\* C15 amended: an assistant message_update with no tool call and no
\* thinking block but at least one text block makes the activity Text with
\* the normalized text of the last text block when that block's text is not
\* empty, and leaves the activity state as it was when it is empty.
C15_TextFromLastNonEmptyBlock ==
    [][(HandledUpdate(lastOp') /\ progress.isActive
          /\ ~HasToolCall(lastOp'.event.content)
          /\ ~HasThinking(lastOp'.event.content)
          /\ HasText(lastOp'.event.content))
         => IF LastText(lastOp'.event.content).text # << >>
            THEN /\ progress'.currentActivityType = "text"
                 /\ progress'.currentActivity
                      = normalizeText(LastText(lastOp'.event.content).text)
            ELSE ActivityState(progress') = ActivityState(progress)]_vars

C15_Witness ==
    /\ HandledUpdate(lastOp)
    /\ lastOp.event.content = ActivityContents.text
    /\ progress.currentActivityType = "text"
    /\ progress.currentActivity = << "b", " ", "c" >>

\* C16: an assistant message_update whose content has no tool call, no
\* thinking block and no text block leaves the activity state as it was.
C16_NothingToShowKeepsActivity ==
    [][(HandledUpdate(lastOp') /\ progress.isActive
          /\ ~HasToolCall(lastOp'.event.content)
          /\ ~HasThinking(lastOp'.event.content)
          /\ ~HasText(lastOp'.event.content))
         => ActivityState(progress') = ActivityState(progress)]_vars

C16_Witness ==
    /\ HandledUpdate(lastOp)
    /\ lastOp.event.content = ActivityContents.none
    /\ ActivityState(progress)
         = << "thinking", BashName, << "b", " ", "c" >> >>

\* the last call was handleEvent on an active display
Handled(op) == op.op = "handleEvent" /\ op.wasActive

\* C17: after an assistant message_start the activity is System
\* "Working...", after auto_compaction_start System "Compacting context...",
\* after auto_retry_start(attempt, maxAttempts) System
\* "Retrying (attempt/maxAttempts)...", whatever the activity was before.
C17_LifecycleSetsSystemActivity ==
    Handled(lastOp)
      => LET e == lastOp.event
             system(text) ==
                 /\ progress.currentActivityType = "system"
                 /\ progress.currentActivity = text
         IN  /\ (e.type = "message_start" /\ e.role = "assistant")
                  => system(WorkingText)
             /\ e.type = "auto_compaction_start" => system(CompactingText)
             /\ e.type = "auto_retry_start"
                  => system(RetryingPrefix \o << " ", "(" >>
                              \o IntToString(e.attempt) \o << "/" >>
                              \o IntToString(e.maxAttempts)
                              \o << ")", ".", ".", "." >>)

\* a retry starts while the tool name of an earlier Tool activity is held
C17_Witness ==
    /\ Handled(lastOp)
    /\ lastOp.event = RetryStart(2, 3)
    /\ progress.currentToolName = BashName
    /\ progress.currentActivityType = "system"
    /\ progress.currentActivity
         = << "R", "e", "t", "r", "y", "i", "n", "g", " ", "(", "2", "/", "3",
              ")", ".", ".", "." >>

\* the event is none of the five kinds handled, or is a message event of a
\* role other than assistant
Ignored(e) ==
    \/ e.type \notin {"message_start", "message_update", "message_end",
                      "auto_compaction_start", "auto_retry_start"}
    \/ /\ e.type \in {"message_start", "message_update", "message_end"}
       /\ e.role # "assistant"

\* C18: a handleEvent call with an event of an unknown kind, or with a
\* message event whose role is not assistant, changes none of the activity
\* state, the usage totals, the context occupancy and the stats-received
\* flag, and does not throw.
C18_IgnoredEventsChangeNothing ==
    [][(Handled(lastOp') /\ progress.isActive /\ Ignored(lastOp'.event))
         => /\ ActivityState(progress') = ActivityState(progress)
            /\ progress'.usage = progress.usage
            /\ progress'.context = progress.context
            /\ progress'.hasReceivedStats = progress.hasReceivedStats
            /\ ~lastOp'.threw]_vars

C18_Witness ==
    /\ Handled(lastOp)
    /\ lastOp.event = MessageEnd("user", SmallUsage)
    /\ ~lastOp.threw
    /\ progress.currentActivityType = "tool"
    /\ ~progress.hasReceivedStats
    /\ progress.usage = ZeroUsage

\* C19: a handleEvent call on an active display writes exactly one frame,
\* and the frame shows the state the event left: its two lines are the
\* activity line and the stats line of the display after the call, cut to
\* the terminal width.
C19_OneFrameOfTheNewState ==
    Handled(lastOp)
      => /\ Len(written) = 1
         /\ written[1].kind = "frame"
         /\ written
              = render([progress EXCEPT !.hasRenderedOnce = written[1].moveUp],
                       now, columns).out

C19_Witness ==
    /\ Handled(lastOp)
    /\ lastOp.event = MessageEnd("assistant", SmallUsage)
    /\ Len(written) = 1
    /\ Contains(stripAnsi(written[1].stats),
                << UpArrow, "1", "0", "0" >> \o PartSep
                  \o << DownArrow, "5", "0" >>)

\* the number of places where sub occurs in s
Occurrences(s, sub) ==
    Cardinality({ i \in 1..(Len(s) - Len(sub) + 1) :
                    SubSeq(s, i, i + Len(sub) - 1) = sub })

OwnedRows == 0..3

\* what the terminal does with the chunk the last call wrote, from the row
\* the cursor was on before the call
WrittenEffect(out, row) ==
    IF out = << >> THEN [row |-> row, cleared |-> {}]
    ELSE TermEffect(ChunkBytes(out[1]), row)

\* C21: every stop() call writes a sequence that clears the 4 rows of the
\* display's block and no other row, and leaves the cursor on the first row
\* of the block, whether or not a frame was rendered before it.
C21_StopClearsOwnedLines ==
    [][lastOp'.op = "stop"
         => /\ WrittenEffect(written', cursorRow).cleared = OwnedRows
            /\ cursorRow' = 0]_vars

\* C22: a stop() call on a display that is not active (stopped before, or
\* never started) changes no field of the display, leaves the cursor on the
\* row it was on, clears no row outside the block the first stop() emptied,
\* and does not throw.
C22_StopIsIdempotent ==
    [][(lastOp'.op = "stop" /\ ~progress.isActive)
         => /\ progress' = progress
            /\ cursorRow' = cursorRow
            /\ WrittenEffect(written', cursorRow).cleared \subseteq OwnedRows
            /\ ~lastOp'.threw]_vars

\* C23: in every frame the activity line and the stats line are each at
\* most as wide as the terminal column count read at that render (80 when
\* the count is not available or 0), also right after the count changed.
C23_LinesFitTheTerminal ==
    FrameWritten
      => /\ visibleWidth(written[1].activity) <= TermWidth(columns)
         /\ visibleWidth(written[1].stats) <= TermWidth(columns)

\* the last call handled an assistant message_update with a tool call
HandledToolCall(op) == HandledUpdate(op) /\ HasToolCall(op.event.content)

\* C24: after a message_update whose last tool call is bash, the activity
\* detail is the whole command with its whitespace normalized, however long
\* it is; the line is cut only in the frame, and only when it is wider than
\* the terminal.
C24_BashCommandKeptInFull ==
    (HandledToolCall(lastOp) /\ ~lastOp.threw
       /\ LastToolCall(lastOp.event.content).name = BashName)
      => LET args == LastToolCall(lastOp.event.content).arguments
         IN  /\ progress.currentActivity
                  = normalizeText(OrElse(GetArg(args, "command"), << >>))
             /\ FrameWritten
             /\ Truncated(written[1].activity)
                  <=> visibleWidth(buildActivityLine(progress))
                        > TermWidth(columns)

C24_Witness ==
    /\ HandledToolCall(lastOp)
    /\ lastOp.event.content = ToolContents.longBash
    /\ progress.currentActivity
         = Repeat("x", 20) \o << " " >> \o Repeat("y", 20)
    /\ columns = 20
    /\ Truncated(written[1].activity)

\* C25: an assistant message_update whose tool call lacks an expected
\* argument (path, pattern, command), or has no arguments object at all, is
\* handled without an error and a frame is rendered; a missing read path
\* or bash command is taken as the empty string.
C25_MissingFieldsTolerated ==
    HandledToolCall(lastOp)
      => LET c == lastOp.event.content
         IN  /\ ~lastOp.threw
             /\ FrameWritten
             /\ c \in {ToolContents.readNoPath, ToolContents.bashNoCommand,
                       ToolContents.noArguments}
                  => progress.currentActivity = << >>

\* C26: for a tool without a rule of its own, the activity detail is the
\* JSON of the arguments when that is at most 40 characters long, and its
\* first 37 characters followed by "..." otherwise; it is never longer than
\* 40 characters.
C26_UnknownToolJsonCap ==
    (HandledToolCall(lastOp) /\ ~lastOp.threw
       /\ LastToolCall(lastOp.event.content).name
            \notin {ReadName, WriteName, EditName, BashName, GrepName,
                    FindName, LsName})
      => LET json == JsonStringify(LastToolCall(lastOp.event.content).arguments)
         IN  /\ Len(json) <= 40 => progress.currentActivity = json
             /\ Len(json) > 40
                  => progress.currentActivity
                       = SubSeq(json, 1, 37) \o << ".", ".", "." >>
             /\ Len(progress.currentActivity) <= 40

C26_Witness ==
    /\ HandledToolCall(lastOp)
    /\ lastOp.event.content = ToolContents.customLong
    /\ progress.currentActivityType = "tool"
    /\ progress.currentActivity
         = << "{", "\"", "p", "a", "t", "h", "\"", ":", "\"" >>
             \o Repeat("a", 28) \o << ".", ".", "." >>

\* the stats line holds the part, between two separators
HasPart(stats, part) == Contains(stats, PartSep \o part \o PartSep)

\* C27: in every frame that shows the context occupancy, the occupancy text
\* is in the error color exactly when tokens / window * 100 > 90, in the
\* warning color exactly when it is > 70 and at most 90, and uncolored
\* otherwise; at exactly 90 it is in the warning color and at exactly 70 it
\* is uncolored. The percentage is that of the tokens and window the display
\* holds when the frame is rendered.
C27_ContextColorThresholds ==
    (/\ FrameWritten
     /\ progress.hasReceivedStats
     /\ progress.context.window > 0
     /\ ~Truncated(written[1].stats))
      => LET stats == written[1].stats
             d == ContextDisplay(progress)
             t == progress.context.tokens * 100
             w == progress.context.window
         IN  /\ HasPart(stats, ThemeFg("error", d)) <=> t > 90 * w
             /\ HasPart(stats, ThemeFg("warning", d))
                  <=> (t > 70 * w /\ t <= 90 * w)
             /\ HasPart(stats, d) <=> t <= 70 * w
             /\ t = 90 * w => HasPart(stats, ThemeFg("warning", d))
             /\ t = 70 * w => HasPart(stats, d)

C27_Witness ==
    /\ FrameWritten
    /\ lastOp.op = "handleEvent"
    /\ progress.context.tokens = 900
    /\ progress.context.window = 1000
    /\ HasPart(written[1].stats,
               ThemeFg("warning",
                       << "9", "0", ".", "0", "%", "/", "1", ".", "0", "k" >>))

\* the text of tenths / 10 with one decimal, followed by the unit
OneDecimal(tenths, unit) ==
    IntToString(tenths \div 10)
      \o << ".", DigitChars[(tenths % 10) + 1], unit >>

\* C28: formatTokens of a non-negative integer count is the literal integer
\* below 1000, the thousands to the nearest tenth followed by k below
\* 10,000, the thousands to the nearest integer followed by k below
\* 1,000,000, the millions to the nearest tenth followed by M below
\* 10,000,000 and the millions to the nearest integer followed by M from
\* there on; 1000 gives 1.0k and 200000 gives 200k.
C28_FiveTiers ==
    fResult # Pending
      => /\ fCount < 1000 => fResult = IntToString(fCount)
         /\ (fCount >= 1000 /\ fCount < 10000)
              => \E n \in 10..100 :
                   /\ fResult = OneDecimal(n, "k")
                   /\ n * 100 - fCount \in -50..50
         /\ (fCount >= 10000 /\ fCount < 1000000)
              => \E n \in 10..1000 :
                   /\ fResult = Append(IntToString(n), "k")
                   /\ n * 1000 - fCount \in -499..500
         /\ (fCount >= 1000000 /\ fCount < 10000000)
              => \E n \in 10..100 :
                   /\ fResult = OneDecimal(n, "M")
                   /\ n * 100000 - fCount \in -50000..50000
         /\ fCount >= 10000000
              => \E n \in 10..(fCount \div 1000000 + 1) :
                   /\ fResult = Append(IntToString(n), "M")
                   /\ n * 1000000 - fCount \in -499999..500000
         /\ fCount = 1000 => fResult = << "1", ".", "0", "k" >>
         /\ fCount = 200000 => fResult = << "2", "0", "0", "k" >>

C28_Witness ==
    /\ fCount = 200000
    /\ fResult = << "2", "0", "0", "k" >>

\* C29: start() takes the current time as the start time and no other call
\* changes it; the last part of every frame's stats line is the whole
\* number of seconds from that start to the time of the frame, written as
\* <seconds>s below 60 seconds and as <minutes>m <seconds>s, with seconds in
\* 0..59, from 60 seconds on (5 s is 5s, 125 s is 2m 5s).
C29_ElapsedSinceLastStart ==
    [][/\ lastOp'.op = "start" => progress'.startTime = now'
       /\ lastOp'.op # "start" => progress'.startTime = progress.startTime
       /\ (FrameWritten' /\ ~Truncated(written'[1].stats))
            => LET secs == (now' - progress'.startTime) \div 1000
                   m == CHOOSE k \in 0..secs : k * 60 <= secs /\ secs < (k + 1) * 60
                   s == secs - m * 60
                   shown == stripAnsi(written'[1].stats)
               IN  /\ s \in 0..59
                   /\ secs < 60
                        => EndsWith(shown, PartSep \o IntToString(secs)
                                             \o << "s" >>)
                   /\ secs >= 60
                        => EndsWith(shown, PartSep \o IntToString(m)
                                             \o << "m", " " >>
                                             \o IntToString(s) \o << "s" >>)
                   /\ secs = 5 => EndsWith(shown, PartSep \o << "5", "s" >>)
                   /\ secs = 125
                        => EndsWith(shown,
                                    PartSep \o << "2", "m", " ", "5", "s" >>)]_vars

C29_Witness ==
    /\ FrameWritten
    /\ lastOp.op = "tick"
    /\ now - progress.startTime = 125000
    /\ EndsWith(stripAnsi(written[1].stats),
                PartSep \o << "2", "m", " ", "5", "s" >>)

\* C30: start() stores the model and the thinking level it is given, and no
\* event and no tick changes them; in every frame the model part of the
\* stats line is the model identifier, followed by ":" and the thinking
\* level exactly when the model can reason and the level is not off.
C30_ModelSegment ==
    [][/\ lastOp'.op = "start"
            => \A s \in StatsStarts :
                 Start(s[1], s[2])
                   => (progress'.model = s[1]
                         /\ progress'.thinkingLevel = s[2])
       /\ lastOp'.op \in {"handleEvent", "tick"}
            => /\ progress'.model = progress.model
               /\ progress'.thinkingLevel = progress.thinkingLevel
       /\ (/\ FrameWritten'
           /\ ~Truncated(written'[1].stats)
           /\ progress'.model.present)
            => LET shown == written'[1].stats
                   id == progress'.model.id
                   level == progress'.thinkingLevel
                   suffixed == progress'.model.reasoning /\ level # "off"
               IN  /\ Contains(shown, id \o << ":" >>) <=> suffixed
                   /\ suffixed
                        => HasPart(shown, id \o << ":" >> \o LevelChars(level))
                   /\ ~suffixed => HasPart(shown, id)]_vars

C30_Witness ==
    /\ FrameWritten
    /\ lastOp.op = "handleEvent"
    /\ progress.model = ReasoningModel
    /\ progress.thinkingLevel = "high"
    /\ HasPart(written[1].stats, << "m", "1", ":", "h", "i", "g", "h" >>)

\* C31: a start() call leaves the display active with the system activity
\* Starting..., and writes one frame in the call itself: a first frame (no
\* cursor-up) whose activity line is the spinner and Starting... and whose
\* stats line shows the placeholder segments, as far as the terminal width
\* lets it reach.
C31_StartPaintsStarting ==
    lastOp.op = "start"
      => /\ progress.isActive
         /\ progress.currentActivity = StartingText
         /\ progress.currentActivityType = "system"
         /\ Len(written) = 1
         /\ written[1].kind = "frame"
         /\ ~written[1].moveUp
         /\ stripAnsi(written[1].activity)
              = << SPINNER_FRAMES[progress.spinnerFrame + 1], " " >>
                  \o StartingText
         /\ LET shown == Shown(written[1].stats)
                expected == PlaceholderStats(progress.context.window)
                k == Min(Len(shown), Len(expected))
            IN  /\ SubSeq(shown, 1, k) = SubSeq(expected, 1, k)
                /\ ~Truncated(written[1].stats) => Len(shown) >= Len(expected)

\* a start() after a session that received usage and showed a tool call
C31_Witness ==
    /\ lastOp.op = "start"
    /\ progress.usage # ZeroUsage
    /\ FrameWritten
    /\ ~Truncated(written[1].stats)
    /\ Contains(stripAnsi(written[1].activity), StartingText)
    /\ StartsWith(stripAnsi(written[1].stats), << UpArrow, "-", "-", "-" >>)

\* C32: a render changes no field of the display but hasRenderedOnce, and
\* rendering again at once writes the same activity line and stats line; so
\* when a call renders and leaves the activity state, the usage totals, the
\* context occupancy, hasReceivedStats, the spinner frame and the active
\* flag as they were, with the clock and the terminal width unchanged, the
\* frame it writes has the same two lines as the frame before it.
C32_RenderOnlyWrites ==
    [][/\ LET rendered == [progress' EXCEPT !.hasRenderedOnce = TRUE]
          IN  IF progress'.isActive
              THEN /\ render(progress', now', columns').p = rendered
                   /\ render(rendered, now', columns')
                        = [render(progress', now', columns')
                             EXCEPT !.out[1].moveUp = TRUE]
              ELSE render(progress', now', columns')
                     = [p |-> progress', out |-> << >>]
       /\ (/\ FrameWritten
           /\ FrameWritten'
           /\ [progress' EXCEPT !.hasRenderedOnce = progress.hasRenderedOnce]
                = progress
           /\ now' = now
           /\ columns' = columns)
            => /\ written'[1].activity = written[1].activity
               /\ written'[1].stats = written[1].stats]_vars

\* an event re-rendered a state it did not change, over an earlier frame
C32_Witness ==
    /\ Handled(lastOp)
    /\ lastOp.event = CompactionStart
    /\ FrameWritten
    /\ written[1].moveUp
    /\ written = render(progress, now, columns).out

\* C33: runPrintMode has a progress display exactly when the mode is text,
\* stderr is a TTY and quiet is false or undefined: in that case, and in no
\* other, the display is started before the prompts are sent and is active
\* with a live timer while they run; otherwise no display is ever started
\* and none writes.
C33_ProgressExactlyWhenShown ==
    LET shown == run.mode = "text" /\ run.isTTY
                   /\ run.quiet \in {"false", "undefined"}
    IN  /\ run.pc \notin {"none", "entry"}
             => /\ run.hasProgress <=> shown
                /\ shouldShowProgress(run.mode, run.isTTY, run.quiet) <=> shown
        /\ run.pc \in {"prompts", "awaiting"}
             => /\ progress.isActive <=> shown
                /\ timers # {} <=> shown
        /\ (run.pc # "none" /\ ~shown)
             => /\ written = << >> \/ written[1].kind = "console"
                /\ timers = {}
                /\ ~progress.isActive

C33_Witness ==
    /\ run.pc = "awaiting"
    /\ run.mode = "text"
    /\ run.isTTY
    /\ run.quiet = "undefined"
    /\ progress.isActive
    /\ FrameWritten

\* C34: while the display is active, whatever is written to stderr is a
\* frame of the renderer: no handler of runPrintMode writes to stderr
\* between start() and stop().
C34_OnlyRendererWritesWhileActive ==
    (progress.isActive /\ written # << >>) => written[1].kind = "frame"

\* C35: the spinner frame index is always in 0..9; a timer callback on an
\* active display advances it by exactly one modulo 10 and writes exactly
\* one frame, which shows the glyph of the new index; no handleEvent, start
\* or stop call changes it.
C35_SpinnerStepsByOne ==
    [][/\ progress.spinnerFrame \in 0..9
       /\ progress'.spinnerFrame \in 0..9
       /\ (lastOp'.op = "tick" /\ progress.isActive)
            => /\ progress'.spinnerFrame
                    = IF progress.spinnerFrame = 9 THEN 0
                      ELSE progress.spinnerFrame + 1
               /\ Len(written') = 1
               /\ written'[1].kind = "frame"
               /\ Len(stripAnsi(written'[1].activity)) >= 1
                    => stripAnsi(written'[1].activity)[1]
                         = SPINNER_FRAMES[progress'.spinnerFrame + 1]
       /\ lastOp'.op \in {"handleEvent", "start", "stop"}
            => progress'.spinnerFrame = progress.spinnerFrame]_vars

\* a callback went from the last spinner frame to the first
C35_Witness ==
    /\ lastOp.op = "tick"
    /\ lastOp.wasActive
    /\ ticksRun >= 1
    /\ progress.spinnerFrame = 0
    /\ FrameWritten
    /\ stripAnsi(written[1].activity)[1] = "U+280B"

\* C36: runPrintMode reaches its final output only after every prompt has
\* completed, and when it has a progress display the call before the output
\* is stop(): whenever the final output is about to be written or has been
\* written, the display is not active and has no live timer.
C36_StoppedBeforeFinalOutput ==
    /\ run.pc \in {"stop", "output", "flush", "returned", "exited"}
         => (~run.initialMessage /\ run.messages = 0)
    /\ run.pc \in {"output", "flush", "returned", "exited"}
         => (~progress.isActive /\ timers = {})
    /\ (run.pc = "output" /\ run.hasProgress)
         => (lastOp.op = "stop" /\ written = << ClearChunk >>)
    /\ run.printed # "nothing" => (~progress.isActive /\ timers = {})

C36_Witness ==
    /\ run.pc = "flush"
    /\ run.hasProgress
    /\ run.printed = "text"
    /\ endsHandled >= 1
    /\ ~progress.isActive

\* C37: after the final output of runPrintMode in text mode: when the last
\* message of the session is an assistant message whose stop reason is error
\* or aborted, its error message, or "Request <stopReason>" when it has
\* none, was written to stderr, the process exited with code 1 and nothing
\* was written to stdout; otherwise the process did not exit, nothing was
\* written to stderr, and when the last message is an assistant message its
\* text blocks, and only they, were written to stdout in their order.
C37_ErrorExitOrTextOutput ==
    (run.pc \in {"flush", "returned", "exited"} /\ run.mode = "text")
      => LET m == run.lastMessage
             failed == m.role = "assistant"
                         /\ m.stopReason \in {"error", "aborted"}
             textAt == { i \in 1..Len(m.content) : m.content[i].type = "text" }
         IN  IF failed
             THEN /\ run.pc = "exited"
                  /\ run.exitCode = 1
                  /\ run.stdout = << >>
                  /\ run.stderr
                       = IF m.errorMessage \notin {Undefined, << >>}
                         THEN m.errorMessage
                         ELSE IF m.stopReason = "error"
                         THEN << "R", "e", "q", "u", "e", "s", "t", " ",
                                 "e", "r", "r", "o", "r" >>
                         ELSE << "R", "e", "q", "u", "e", "s", "t", " ",
                                 "a", "b", "o", "r", "t", "e", "d" >>
             ELSE /\ run.pc # "exited"
                  /\ run.exitCode = "none"
                  /\ run.stderr = << >>
                  /\ IF m.role = "assistant"
                     THEN /\ Len(run.stdout) = Cardinality(textAt)
                          /\ \A i \in textAt :
                               run.stdout[Cardinality({ j \in textAt : j <= i })]
                                 = m.content[i].text
                     ELSE run.stdout = << >>

\* the request was aborted with no error message
C37_Witness ==
    /\ run.pc = "exited"
    /\ run.mode = "text"
    /\ run.hasProgress
    /\ run.lastMessage.stopReason = "aborted"
    /\ run.stderr = << "R", "e", "q", "u", "e", "s", "t", " ",
                       "a", "b", "o", "r", "t", "e", "d" >>
    /\ run.exitCode = 1

\* C38: no start, handleEvent, timer callback or stop call leaves the cursor
\* above the first row of the display's block or applies a clear-line
\* sequence to a row outside the 4 rows of the block.
C38_CursorStaysInBlock ==
    [][lastOp'.op \in {"start", "handleEvent", "tick", "stop"}
         => /\ cursorRow' \in OwnedRows
            /\ WrittenEffect(written',
                             IF lastOp'.op = "start" THEN 0 ELSE cursorRow).cleared
                 \subseteq OwnedRows]_vars

\* C39: the activity line and the stats line of every frame hold no newline
\* and no carriage return, whatever the tool name, the argument values and
\* the thinking or text content are, so the frame has exactly the 3 newlines
\* that separate its 4 lines.
C39_LinesHoldNoLineBreak ==
    FrameWritten
      => /\ ~Contains(written[1].activity, << LF >>)
         /\ ~Contains(written[1].activity, << CR >>)
         /\ ~Contains(written[1].stats, << LF >>)
         /\ ~Contains(written[1].stats, << CR >>)
         /\ Occurrences(ChunkBytes(written[1]), << LF >>) = 3

====
